---- MODULE Spec2Model ----
(***************************************************************************)
(* Model of the glk-rs window tree manager, stream manager and facade      *)
(* (crates/glk-rs/src/windows.rs, stream.rs, entry/glk_win.rs).            *)
(*                                                                         *)
(* Window objects live on a reference-counted heap (Rc<RefCell<Window>>).  *)
(* A heap address is never an ID: IDs are the `this_id` field and the keys *)
(* of WindowManager.windows.  child1/child2 and the registry are strong    *)
(* references, `parent` is a Weak reference whose upgrade fails once the   *)
(* object it names has no strong reference left.                           *)
(*                                                                         *)
(* A panic unwinds the calling thread: the model records it in `panicked`  *)
(* and takes no further step; the managers keep the fields they had at     *)
(* the call, since nothing can observe them afterwards.                    *)
(***************************************************************************)
EXTENDS Integers, Sequences, FiniteSets, TLC

\* Option::None for an Option<GlkWindowID>, Option<GlkStreamID> or a null / dead pointer
Nil == -1

\* Option::None for an Option<WindowSplitMethod>
NoMethod == "NoMethod"

\* bound on WindowManager.val: at most MaxVal window objects are ever created
MaxVal == 7

\* the window IDs a client may pass to the facade (registered or not)
WinIds == 0..(MaxVal - 1)

\* window types a client may ask for; "Pair" is rejected by window_open
WinTypes == {"TextBuffer", "Pair"}

\* abstract WindowSplitMethod values (position / amount / border are never interpreted)
Methods == {"Above40", "Below3"}

\* bound on StreamManager.val: at most MaxSval streams are ever created
MaxSval == 3

\* bound on write_count: no write is made to a stream whose counter has reached it
MaxCount == 2

\* bound on read_count: no read is made from a stream whose counter has reached it
MaxRead == 3

\* bound on the length of a memory buffer or file handed to the library
MaxLen == 2

\* the stream IDs a client may pass to the facade (live or not)
StreamIds == 0..(MaxSval - 1)

\* GlkFileMode
Modes == {"Read", "Write", "ReadWrite", "WriteAppend"}

\* b'\n'
Newline == 10

\* the u8 values a client writes or supplies: newline, 'A', 0xE9
Bytes == {Newline, 65, 233}

\* the chars a client writes: newline, 'A', U+00E9
Chars == {Newline, 65, 233}

\* Vec<u8> of length 0..n over Bytes
BytesUpTo(n) == UNION {[1..k -> Bytes] : k \in 0..n}

\* the clock stops here
MaxTime == 3

\* timer intervals a client asks for
MaxInterval == 1

\* genuine events the window sends
MaxEvents == 2

\* intervals waiting in the update channel when a client sets the timer
MaxUpdates == 2

VARIABLES
    root,       \* WindowManager.root : Option<GlkWindowID>
    windows,    \* WindowManager.windows : key -> heap address
    val,        \* WindowManager.val : next window ID
    heap,       \* heap address -> Window, the objects with a strong reference
    nextAddr,   \* next fresh heap address
    streams,    \* StreamManager.stream : stream ID -> GlkStream
    sval,       \* StreamManager.val : next stream ID
    panicked,   \* the calling thread has panicked
    last,       \* the last facade call: what was asked, what it returned
    pending,    \* EventManager.pending : VecDeque<GlkEvent>
    timer_fired,            \* EventManager.timer_fired
    timer_interval,         \* EventManager.timer_interval
    timer_thread,           \* EventManager.timer_thread is Some
    timer_update_channel,   \* EventManager.timer_update_channel is Some
    rx,         \* the events in the inbound channel (EventManager.tx / rx)
    next,       \* the intervals in the update channel of the timer thread
    tt,         \* the timer thread: where it is, its current_interval, its deadline
    caller,     \* the calling thread: idle, or inside select or set_timer
    now,        \* the clock
    sent,       \* the genuine events sent on the inbound channel so far
    delivered,  \* the genuine events select and select_poll have returned
    due,        \* the time from which a tick is owed to the caller, and since what
    updated     \* the time of the last request for a non-zero interval, else Nil

\* the event manager, its channels, the timer thread and the clock
evars == <<pending, timer_fired, timer_interval, timer_thread, timer_update_channel,
           rx, next, tt, caller, now, sent, delivered, due, updated>>

vars == <<root, windows, val, heap, nextAddr, streams, sval, panicked, last, evars>>

----------------------------------------------------------------------------
\* Generic helpers

Range(f) == {f[x] : x \in DOMAIN f}

\* GlkEvent values: None, Timer, and CharInput as the genuine events, told
\* apart by id
Ev(kind, id) == [kind |-> kind, id |-> id]
NoneEvent == Ev("None", 0)
TimerEvent == Ev("Timer", 0)
CharInput(id) == Ev("CharInput", id)

\* the timer thread: pc is none (never spawned, or joined), start,
\* recv_timeout, fire, recv or done
Thread(pc, current_interval, deadline) ==
    [pc |-> pc, current_interval |-> current_interval, deadline |-> deadline]
NoThread == Thread("none", 0, 0)

\* the caller is owed no tick
NoDue == [at |-> Nil, by |-> "none"]

\* HashMap::insert
Put(f, k, v) == [x \in (DOMAIN f) \cup {k} |-> IF x = k THEN v ELSE f[x]]

\* HashMap::remove
Del(f, k) == [x \in (DOMAIN f) \ {k} |-> f[x]]

\* Window::default()
DefaultWindow ==
    [wintype |-> "Root", method |-> NoMethod, this_id |-> 0, parent |-> Nil,
     child1 |-> Nil, child2 |-> Nil, keywin |-> "None", stream |-> 0,
     echo_stream |-> Nil]

\* the strong references an object holds
Kids(h, a) == IF a \in DOMAIN h THEN {h[a].child1, h[a].child2} \ {Nil} ELSE {}

RECURSIVE ReachFrom(_, _, _)
ReachFrom(h, frontier, seen) ==
    IF frontier \subseteq seen THEN seen
    ELSE LET new == frontier \ seen
         IN ReachFrom(h, UNION {Kids(h, a) : a \in new}, seen \cup new)

\* a and everything below it through child1 / child2
Desc(h, a) == ReachFrom(h, {a}, {})

\* the window objects a stream manager holds a strong reference to
StreamOwned(s) == {s[i].sh : i \in {j \in DOMAIN s : s[j].kind = "window"}}

\* Rc drop: only objects still owned (by the registry, a window stream, or a
\* child slot of an owned object) stay allocated
Collect(h, w, s) ==
    LET alive == ReachFrom(h, Range(w) \cup StreamOwned(s), {})
    IN [a \in (DOMAIN h) \cap alive |-> h[a]]

\* Weak::upgrade
Upgrade(h, p) == IF p # Nil /\ p \in DOMAIN h THEN p ELSE Nil

----------------------------------------------------------------------------
\* WindowRef methods, on heap addresses

\* WindowRef::get_parent
get_parent(h, a) == Upgrade(h, h[a].parent)

\* WindowRef::get_sibling
get_sibling(h, a) ==
    LET parent == Upgrade(h, h[a].parent)
    IN IF parent = Nil THEN Nil
       ELSE IF h[parent].wintype = "Root" THEN Nil
       ELSE IF h[parent].child1 = Nil THEN Nil
       ELSE IF h[parent].child1 = a THEN h[parent].child2
       ELSE h[parent].child1

\* WindowRef::clean_tree
clean_tree(h, a) ==
    LET d == Desc(h, a)
    IN [x \in DOMAIN h |->
            IF x \in d THEN [h[x] EXCEPT !.child1 = Nil, !.child2 = Nil] ELSE h[x]]

\* WindowRef::split: the new leaf is allocated at na, the Pair at na + 1
split(h, na, self, method, wintype) ==
    LET newA == na
        pairA == na + 1
        old_parent == Upgrade(h, h[self].parent)
        new_win == [DefaultWindow EXCEPT !.wintype = wintype, !.parent = pairA]
        pair_win == [DefaultWindow EXCEPT !.wintype = "Pair", !.method = method,
                                          !.child1 = self, !.child2 = newA,
                                          !.keywin = "Child2", !.parent = old_parent]
        h1 == (newA :> new_win) @@ (pairA :> pair_win) @@ h
        fail == [panic |-> TRUE, heap |-> h, pair |-> Nil, new |-> Nil]
        ok(hh) == [panic |-> FALSE,
                   heap |-> [hh EXCEPT ![self].parent = pairA],
                   pair |-> pairA, new |-> newA]
    IN IF h[self].wintype = "Root" THEN fail
       ELSE IF old_parent = Nil THEN fail
       ELSE IF h[old_parent].child1 = Nil THEN fail
       ELSE IF h[old_parent].child1 = self
            THEN ok([h1 EXCEPT ![old_parent].child1 = pairA])
       ELSE IF h[old_parent].child2 # Nil
            THEN IF h[old_parent].child2 # self THEN fail
                 ELSE ok([h1 EXCEPT ![old_parent].child2 = pairA])
       ELSE ok(h1)

\* WindowRef::close_window (the build without cfg(test))
close_window(h, self) ==
    LET parent == get_parent(h, self)
        grandparent == IF parent = Nil THEN Nil ELSE get_parent(h, parent)
        sibling == get_sibling(h, self)
        is_child1 == h[grandparent].child1 = parent
        h1 == IF grandparent = Nil THEN h
              ELSE IF is_child1 THEN [h EXCEPT ![grandparent].child1 = sibling]
              ELSE [h EXCEPT ![grandparent].child2 = sibling]
    IN IF parent = Nil THEN [panic |-> TRUE, heap |-> h]
       ELSE IF grandparent # Nil /\ sibling = Nil THEN [panic |-> TRUE, heap |-> h]
       ELSE [panic |-> FALSE, heap |-> clean_tree(h1, parent)]

\* WindowRef::set_arrangement; keywin is a heap address or Nil
set_arrangement(h, self, method, keywin) ==
    IF h[self].wintype # "Pair" THEN [panic |-> FALSE, heap |-> h]
    ELSE IF keywin = Nil
         THEN [panic |-> FALSE, heap |-> [h EXCEPT ![self].method = method]]
    ELSE IF h[self].child1 = Nil THEN [panic |-> TRUE, heap |-> h]
    ELSE [panic |-> FALSE,
          heap |-> [h EXCEPT ![self].method = method,
                             ![self].keywin = IF h[self].child1 = keywin
                                              THEN "Child1" ELSE "Child2"]]

\* WindowRef::get_arrangement: Option<(method, Option<key window address>)>
NoArrangement == [some |-> FALSE, method |-> NoMethod, keywin |-> Nil]

get_arrangement(h, self) ==
    IF h[self].wintype # "Pair" THEN NoArrangement
    ELSE IF h[self].method = NoMethod THEN NoArrangement
    ELSE IF h[self].keywin = "Child1"
         THEN IF h[self].child1 = Nil THEN NoArrangement
              ELSE [some |-> TRUE, method |-> h[self].method, keywin |-> h[self].child1]
    ELSE IF h[self].keywin = "Child2"
         THEN IF h[self].child2 = Nil THEN NoArrangement
              ELSE [some |-> TRUE, method |-> h[self].method, keywin |-> h[self].child2]
    ELSE [some |-> TRUE, method |-> h[self].method, keywin |-> Nil]

----------------------------------------------------------------------------
\* WindowManager methods; m is the manager [root, windows, val, heap, na]

WM == [root |-> root, windows |-> windows, val |-> val, heap |-> heap, na |-> nextAddr]

\* WindowManager::open_window
open_window(m, wintype) ==
    LET fresh == m.root = Nil
        m1 == IF fresh
              THEN [m EXCEPT !.root = 0,
                             !.windows = Put(m.windows, 0, m.na),
                             !.heap = (m.na :> DefaultWindow) @@ m.heap,
                             !.val = m.val + 1,
                             !.na = m.na + 1]
              ELSE m
        root_win == m1.windows[0]
        main_win == [DefaultWindow EXCEPT !.wintype = wintype, !.this_id = m1.val,
                                          !.parent = root_win]
        h2 == (m1.na :> main_win) @@ [m1.heap EXCEPT ![root_win].child1 = m1.na]
    IN IF fresh /\ DOMAIN m.windows # {} THEN [panic |-> TRUE, m |-> m, ret |-> Nil]
       ELSE IF Cardinality(DOMAIN m1.windows) # 1 THEN [panic |-> TRUE, m |-> m, ret |-> Nil]
       ELSE [panic |-> FALSE,
             m |-> [m1 EXCEPT !.heap = h2,
                              !.windows = Put(m1.windows, m1.val, m1.na),
                              !.val = m1.val + 1,
                              !.na = m1.na + 1],
             ret |-> m1.val]

\* WindowManager::get_root
get_root(m) ==
    IF m.root = Nil THEN Nil
    ELSE IF m.root \notin DOMAIN m.windows THEN Nil
    ELSE IF m.heap[m.windows[m.root]].child1 = Nil THEN Nil
    ELSE m.heap[m.heap[m.windows[m.root]].child1].this_id

\* WindowManager::get_ref / get_window: the heap address, or Nil
get_ref(m, win) == IF win \in DOMAIN m.windows THEN m.windows[win] ELSE Nil

\* WindowManager::get_iter
get_iter(m) == (DOMAIN m.windows) \ {0}

\* WindowManager::split
wm_split(m, parent, method, wintype) ==
    IF parent \notin DOMAIN m.windows THEN [panic |-> FALSE, m |-> m, ret |-> Nil]
    ELSE LET r == split(m.heap, m.na, m.windows[parent], method, wintype)
             h1 == [r.heap EXCEPT ![r.pair].this_id = m.val,
                                  ![r.new].this_id = m.val + 1]
             w1 == Put(Put(m.windows, m.val, r.pair), m.val + 1, r.new)
         IN IF r.panic THEN [panic |-> TRUE, m |-> m, ret |-> Nil]
            ELSE [panic |-> FALSE,
                  m |-> [m EXCEPT !.heap = h1, !.windows = w1,
                                  !.val = m.val + 2, !.na = m.na + 2],
                  ret |-> m.val + 1]

\* WindowManager::close
wm_close(m, win) ==
    IF win \notin DOMAIN m.windows THEN [panic |-> FALSE, m |-> m, ret |-> Nil]
    ELSE LET r == close_window(m.heap, m.windows[win])
         IN IF r.panic THEN [panic |-> TRUE, m |-> m, ret |-> Nil]
            ELSE [panic |-> FALSE,
                  m |-> [m EXCEPT !.heap = r.heap, !.windows = Del(m.windows, win)],
                  ret |-> 0]

----------------------------------------------------------------------------
\* StreamManager methods

\* a window stream that can be read as well
NewWindowStream_readable(a) ==
    [kind |-> "window", sh |-> a, mode |-> "ReadWrite", read_count |-> 0, write_count |-> 0,
     buf |-> << >>, cursor |-> 0, br |-> FALSE]

\* GlkStream::new for a window backend, as window_open makes it
NewWindowStream(a) ==
    [kind |-> "window", sh |-> a, mode |-> "Write", read_count |-> 0, write_count |-> 0,
     buf |-> << >>, cursor |-> 0, br |-> FALSE]

\* a new_stream that hands out the lowest ID no live stream has
new_stream_lowest_free(s, sv, st) ==
    LET free == CHOOSE i \in 0..sv : i \notin DOMAIN s /\ \A j \in 0..(i - 1) : j \in DOMAIN s
    IN [streams |-> Put(s, free, st), sval |-> sv + 1, ret |-> free]

\* StreamManager::new_stream
new_stream(s, sv, st) == [streams |-> Put(s, sv, st), sval |-> sv + 1, ret |-> sv]

\* StreamManager::close that leaves the stream in the map
sm_close_keep(s, id) ==
    IF id \notin DOMAIN s
    THEN [some |-> FALSE, streams |-> s, read_count |-> 0, write_count |-> 0]
    ELSE [some |-> TRUE, streams |-> s,
          read_count |-> s[id].read_count, write_count |-> s[id].write_count]

\* StreamManager::close: Option<GlkStreamResult>
sm_close(s, id) ==
    IF id \notin DOMAIN s
    THEN [some |-> FALSE, streams |-> s, read_count |-> 0, write_count |-> 0]
    ELSE [some |-> TRUE, streams |-> Del(s, id),
          read_count |-> s[id].read_count, write_count |-> s[id].write_count]

----------------------------------------------------------------------------
\* Character encodings

\* char::len_utf8: the number of bytes of a char in a Rust String
len_utf8(ch) == IF ch < 128 THEN 1 ELSE IF ch < 2048 THEN 2 ELSE IF ch < 65536 THEN 3 ELSE 4

RECURSIVE SumLen(_)
\* String::len of the String holding the chars cs
SumLen(cs) == IF cs = << >> THEN 0 ELSE len_utf8(Head(cs)) + SumLen(Tail(cs))

\* the four bytes MemStream::put_char_uni writes for a char, most significant first
BigEndian4(ch) ==
    << (ch \div 16777216) % 256, (ch \div 65536) % 256, (ch \div 256) % 256, ch % 256 >>

\* the u32 MemStream::get_char_uni assembles from four bytes whose first is
\* 0 (the u32 is kept as its bytes: with a first byte above 0 it exceeds
\* every char)
FromBigEndian4(b) == (b[2] * 256 + b[3]) * 256 + b[4]

\* char::from_u32 accepts the u32 made of the four bytes b
IsChar(b) ==
    /\ b[1] = 0
    /\ \/ FromBigEndian4(b) < 55296
       \/ FromBigEndian4(b) > 57343 /\ FromBigEndian4(b) <= 1114111

RECURSIVE EncodeAll(_)
\* the buffer a client builds from chars, four bytes each (the tests' helper loop)
EncodeAll(cs) == IF cs = << >> THEN << >> ELSE BigEndian4(Head(cs)) \o EncodeAll(Tail(cs))

----------------------------------------------------------------------------
\* MemStream: st is the GlkStream record, st.buf / st.cursor the MemStream

\* GlkStream::new for a memory backend (MemStream::new: cursor 0)
NewMemStream(buf, mode) ==
    [kind |-> "memory", sh |-> Nil, mode |-> mode, read_count |-> 0, write_count |-> 0,
     buf |-> buf, cursor |-> 0, br |-> FALSE]

\* MemStream::put_char: a write at the end of the buffer is dropped
mem_put_char(st, ch) ==
    IF st.cursor < Len(st.buf)
    THEN [st EXCEPT !.buf = [st.buf EXCEPT ![st.cursor + 1] = ch], !.cursor = st.cursor + 1]
    ELSE st

RECURSIVE mem_put_buffer(_, _)
\* MemStream::put_buffer
mem_put_buffer(st, buf) ==
    IF buf = << >> THEN st ELSE mem_put_buffer(mem_put_char(st, Head(buf)), Tail(buf))

\* MemStream::put_char_uni
mem_put_char_uni(st, ch) == mem_put_buffer(st, BigEndian4(ch))

\* MemStream::get_char: Option<u8> as [some, ch]
mem_get_char(st) ==
    IF st.cursor < Len(st.buf)
    THEN [st |-> [st EXCEPT !.cursor = st.cursor + 1], some |-> TRUE, ch |-> st.buf[st.cursor + 1]]
    ELSE [st |-> st, some |-> FALSE, ch |-> 0]

RECURSIVE get_bytes_loop(_, _, _, _)
\* the for loop of MemStream::get_bytes; end_char is a byte or Nil
get_bytes_loop(st, count, end_char, result) ==
    IF count = 0 THEN [st |-> st, out |-> result]
    ELSE LET step(g) ==
                IF ~g.some THEN get_bytes_loop(g.st, count - 1, end_char, result)
                ELSE IF g.ch = end_char THEN [st |-> g.st, out |-> result]
                ELSE get_bytes_loop(g.st, count - 1, end_char, Append(result, g.ch))
         IN step(mem_get_char(st))

\* MemStream::get_bytes; maxlen is a length or Nil
get_bytes(st, maxlen, end_char) ==
    LET remaining_bytes == Len(st.buf) - st.cursor
        count == IF maxlen # Nil
                 THEN (IF maxlen < remaining_bytes THEN maxlen ELSE remaining_bytes)
                 ELSE remaining_bytes
    IN get_bytes_loop(st, count, end_char, << >>)

\* MemStream::get_buffer
mem_get_buffer(st, maxlen) == get_bytes(st, maxlen, Nil)

\* MemStream::get_line
mem_get_line(st, maxlen) == get_bytes(st, maxlen, Newline)

RECURSIVE get_char_uni_loop(_, _, _)
\* the for loop of MemStream::get_char_uni: `?` returns early, cursor already moved
get_char_uni_loop(st, n, result) ==
    IF n = 0
    THEN [st |-> st, some |-> IsChar(result),
          ch |-> IF IsChar(result) THEN FromBigEndian4(result) ELSE 0]
    ELSE LET step(g) ==
                IF ~g.some THEN [st |-> g.st, some |-> FALSE, ch |-> 0]
                ELSE get_char_uni_loop(g.st, n - 1, Append(result, g.ch))
         IN step(mem_get_char(st))

\* MemStream::get_char_uni: Option<char> as [some, ch]
mem_get_char_uni(st) == get_char_uni_loop(st, 4, << >>)

RECURSIVE get_uni_loop(_, _, _, _)
\* the for loop of MemStream::get_uni; end_char is a char or Nil
get_uni_loop(st, count, end_char, result) ==
    IF count = 0 THEN [st |-> st, out |-> result]
    ELSE LET step(g) ==
                IF ~g.some THEN get_uni_loop(g.st, count - 1, end_char, result)
                ELSE IF g.ch = end_char THEN [st |-> g.st, out |-> result]
                ELSE get_uni_loop(g.st, count - 1, end_char, Append(result, g.ch))
         IN step(mem_get_char_uni(st))

\* MemStream::get_uni: the String as its sequence of chars
get_uni(st, maxlen, end_char) ==
    LET remaining_bytes == Len(st.buf) - st.cursor
        count == IF maxlen # Nil
                 THEN (IF maxlen < remaining_bytes \div 4 THEN maxlen ELSE remaining_bytes \div 4)
                 ELSE remaining_bytes \div 4
    IN get_uni_loop(st, count, end_char, << >>)

\* MemStream::get_buffer_uni
mem_get_buffer_uni(st, maxlen) == get_uni(st, maxlen, Nil)

\* MemStream::get_line_uni
mem_get_line_uni(st, maxlen) == get_uni(st, maxlen, Newline)

----------------------------------------------------------------------------
\* FileStream over an existing file: st.buf is the file's contents; st.br
\* tells whether get_bufreader has made the BufReader. Before that st.cursor
\* is the offset of the File, afterwards the position of the BufReader the
\* stream reads through.

\* OpenOptions::truncate(mode == Write) on FileStream::open_file
NewFileStream(contents, mode) ==
    [kind |-> "file", sh |-> Nil, mode |-> mode, read_count |-> 0, write_count |-> 0,
     buf |-> IF mode = "Write" THEN << >> ELSE contents, cursor |-> 0, br |-> FALSE]

\* FileStream::get_char: read() is Ok at end of file too, and leaves buf[0] = 0
file_get_char(st) ==
    IF st.cursor < Len(st.buf)
    THEN [st |-> [st EXCEPT !.cursor = st.cursor + 1, !.br = TRUE],
          some |-> TRUE, ch |-> st.buf[st.cursor + 1]]
    ELSE [st |-> [st EXCEPT !.br = TRUE], some |-> TRUE, ch |-> 0]

\* the index of the first newline of b at or after position from + 1, or 0
FirstNewline(b, from) ==
    LET hits == {i \in (from + 1)..Len(b) : b[i] = Newline}
    IN IF hits = {} THEN 0 ELSE CHOOSE i \in hits : \A j \in hits : i <= j

\* std::str::from_utf8 accepts the bytes: no value of Bytes is a UTF-8
\* continuation byte, so only ASCII lines are valid
from_utf8_ok(b) == \A i \in 1..Len(b) : b[i] < 128

\* FileStream::get_line
file_get_line(st, maxlen) ==
    LET remaining == Len(st.buf) - st.cursor
        nl == FirstNewline(st.buf, st.cursor)
    IN IF maxlen # Nil
       THEN IF remaining < maxlen
            \* read_exact fails after draining the reader
            THEN [st |-> [st EXCEPT !.cursor = Len(st.buf), !.br = TRUE], out |-> << >>]
            ELSE IF nl # 0 /\ nl <= st.cursor + maxlen
            \* seek_relative back to just after the newline
            THEN [st |-> [st EXCEPT !.cursor = nl, !.br = TRUE],
                  out |-> SubSeq(st.buf, st.cursor + 1, nl)]
            ELSE [st |-> [st EXCEPT !.cursor = st.cursor + maxlen, !.br = TRUE],
                  out |-> SubSeq(st.buf, st.cursor + 1, st.cursor + maxlen)]
       ELSE LET stop == IF nl # 0 THEN nl ELSE Len(st.buf)
                line == SubSeq(st.buf, st.cursor + 1, stop)
            \* read_line consumes the line and appends it only if it is UTF-8
            IN [st |-> [st EXCEPT !.cursor = stop, !.br = TRUE],
                out |-> IF from_utf8_ok(line) THEN line ELSE << >>]

\* char::from_u32 accepts v: not a surrogate, at most U+10FFFF
from_u32_ok(v) == v < 55296 \/ (v > 57343 /\ v <= 1114111)

\* GlkStream::char_to_bytestream (char::encode_utf8)
char_to_bytestream(ch) ==
    IF ch < 128 THEN << ch >>
    ELSE IF ch < 2048 THEN << 192 + (ch \div 64), 128 + (ch % 64) >>
    ELSE IF ch < 65536
    THEN << 224 + (ch \div 4096), 128 + ((ch \div 64) % 64), 128 + (ch % 64) >>
    ELSE << 240 + (ch \div 262144), 128 + ((ch \div 4096) % 64),
            128 + ((ch \div 64) % 64), 128 + (ch % 64) >>

\* what bytestream_to_char returns: Option<char> and the reader's position
Decoded(some, ch, pos) == [some |-> some, ch |-> ch, pos |-> pos]

\* bytestream_to_char whose three-byte form keeps three bits of the lead byte
bytestream_to_char_short(b, pos) ==
    LET n == Len(b) - pos
        val0 == b[pos + 1]
        val1 == b[pos + 2]
        val2 == b[pos + 3]
        val3 == b[pos + 4]
        cont(v) == v \div 64 = 2
        char2 == (val0 % 32) * 64 + (val1 % 64)
        char3 == ((val0 % 8) * 64 + (val1 % 64)) * 64 + (val2 % 64)
        char4 == (((val0 % 8) * 64 + (val1 % 64)) * 64 + (val2 % 64)) * 64 + (val3 % 64)
    IN IF n = 0 THEN Decoded(FALSE, 0, pos)
       ELSE IF val0 < 128 THEN Decoded(TRUE, val0, pos + 1)
       ELSE IF val0 \div 32 = 6
       THEN IF n < 2 THEN Decoded(FALSE, 0, pos + 1)
            ELSE IF ~cont(val1) \/ ~from_u32_ok(char2) THEN Decoded(FALSE, 0, pos + 2)
            ELSE Decoded(TRUE, char2, pos + 2)
       ELSE IF val0 \div 16 = 14
       THEN IF n < 3 THEN Decoded(FALSE, 0, pos + n)
            ELSE IF ~cont(val1) \/ ~cont(val2) \/ ~from_u32_ok(char3)
            THEN Decoded(FALSE, 0, pos + 3)
            ELSE Decoded(TRUE, char3, pos + 3)
       ELSE IF val0 \div 16 = 15
       THEN IF n < 4 THEN Decoded(FALSE, 0, pos + n)
            ELSE IF ~cont(val1) \/ ~cont(val2) \/ ~cont(val3) \/ ~from_u32_ok(char4)
            THEN Decoded(FALSE, 0, pos + 4)
            ELSE Decoded(TRUE, char4, pos + 4)
       ELSE Decoded(FALSE, 0, pos + 1)

\* GlkStream::bytestream_to_char on a reader over b at position pos: the
\* bytes are read one by one, `?` returns None at the end of the data with
\* the bytes read so far consumed, the checks of the continuation bytes come
\* after all of them are read
bytestream_to_char(b, pos) ==
    LET n == Len(b) - pos
        val0 == b[pos + 1]
        val1 == b[pos + 2]
        val2 == b[pos + 3]
        val3 == b[pos + 4]
        cont(v) == v \div 64 = 2
        char2 == (val0 % 32) * 64 + (val1 % 64)
        char3 == ((val0 % 16) * 64 + (val1 % 64)) * 64 + (val2 % 64)
        char4 == (((val0 % 8) * 64 + (val1 % 64)) * 64 + (val2 % 64)) * 64 + (val3 % 64)
    IN IF n = 0 THEN Decoded(FALSE, 0, pos)
       ELSE IF val0 < 128 THEN Decoded(TRUE, val0, pos + 1)
       ELSE IF val0 \div 32 = 6
       THEN IF n < 2 THEN Decoded(FALSE, 0, pos + 1)
            ELSE IF ~cont(val1) \/ ~from_u32_ok(char2) THEN Decoded(FALSE, 0, pos + 2)
            ELSE Decoded(TRUE, char2, pos + 2)
       ELSE IF val0 \div 16 = 14
       THEN IF n < 3 THEN Decoded(FALSE, 0, pos + n)
            ELSE IF ~cont(val1) \/ ~cont(val2) \/ ~from_u32_ok(char3)
            THEN Decoded(FALSE, 0, pos + 3)
            ELSE Decoded(TRUE, char3, pos + 3)
       ELSE IF val0 \div 16 = 15
       THEN IF n < 4 THEN Decoded(FALSE, 0, pos + n)
            ELSE IF ~cont(val1) \/ ~cont(val2) \/ ~cont(val3) \/ ~from_u32_ok(char4)
            THEN Decoded(FALSE, 0, pos + 4)
            ELSE Decoded(TRUE, char4, pos + 4)
       ELSE Decoded(FALSE, 0, pos + 1)

\* the get_char_uni of a FileStream: bytestream_to_char on its BufReader
file_get_char_uni(st) ==
    LET at(d) == [st |-> [st EXCEPT !.cursor = d.pos, !.br = TRUE],
                  some |-> d.some, ch |-> d.ch]
    IN at(bytestream_to_char(st.buf, st.cursor))

\* File::write of bytes at offset pos (a gap past the end reads as zeros)
WriteAt(contents, pos, bytes) ==
    LET len == IF pos + Len(bytes) > Len(contents) THEN pos + Len(bytes) ELSE Len(contents)
    IN [i \in 1..len |->
          IF i > pos /\ i <= pos + Len(bytes) THEN bytes[i - pos]
          ELSE IF i <= Len(contents) THEN contents[i] ELSE 0]

\* FileStream::put_char_uni: the UTF-8 bytes go to the File at its offset,
\* at the end of the file when it was opened with append
file_put_char_uni(st, ch) ==
    LET pos == IF st.mode = "WriteAppend" THEN Len(st.buf) ELSE st.cursor
    IN [st EXCEPT !.buf = WriteAt(st.buf, pos, char_to_bytestream(ch)),
                  !.cursor = pos + Len(char_to_bytestream(ch))]

RECURSIVE file_put_buffer_uni(_, _)
\* FileStream::put_buffer_uni
file_put_buffer_uni(st, buf) ==
    IF buf = << >> THEN st
    ELSE file_put_buffer_uni(file_put_char_uni(st, Head(buf)), Tail(buf))

\* GlkSeekMode
SeekModes == {"Start", "Current", "End"}

\* FileStream::set_position: [st, some]; a seek before the start fails
file_set_position(st, pos, seekmode) ==
    LET ok == \/ seekmode = "Start" /\ pos >= 0
              \/ seekmode = "Current"
              \/ seekmode = "End" /\ pos <= 0
        seek_to == CASE seekmode = "Start" -> pos
                     [] seekmode = "Current" -> st.cursor + pos
                     [] seekmode = "End" -> Len(st.buf) + pos
    IN IF ok /\ seek_to >= 0
       THEN [st |-> [st EXCEPT !.cursor = seek_to], some |-> TRUE, panic |-> FALSE]
       ELSE [st |-> st, some |-> FALSE, panic |-> FALSE]

\* i32::MAX
MaxI32 == 2147483647

\* a + b of two i32 values, a >= 0, leaves i32
AddOverflows(a, b) == b > MaxI32 - a

\* the wrapped sum a + b - 2^32 of an overflowing addition (a >= 1)
WrappedSum(a, b) == ((a - 1) - (MaxI32 - b)) - MaxI32 - 1

\* MemStream::set_position: [st, some, panic]. The i32 sum of the Current
\* and End modes overflows for a large pos: with overflow checks (debug
\* builds) that is a panic, without them the sum wraps
mem_set_position(st, pos, seekmode, overflow_checks) ==
    LET base == CASE seekmode = "Start" -> 0
                  [] seekmode = "Current" -> st.cursor
                  [] seekmode = "End" -> Len(st.buf)
        new_cursor == IF AddOverflows(base, pos) THEN WrappedSum(base, pos) ELSE base + pos
    IN IF AddOverflows(base, pos) /\ overflow_checks
       THEN [st |-> st, some |-> FALSE, panic |-> TRUE]
       ELSE IF new_cursor < 0 \/ new_cursor > Len(st.buf)
       THEN [st |-> st, some |-> FALSE, panic |-> FALSE]
       ELSE [st |-> [st EXCEPT !.cursor = new_cursor], some |-> TRUE, panic |-> FALSE]

----------------------------------------------------------------------------
\* GlkStream: the mode gate and the counters around a backend

\* GlkStream::check_write (FALSE is the panic)
check_write(st) == st.mode \in {"Write", "ReadWrite", "WriteAppend"}

\* a check_read that lets every mode through
check_read_any(st) == st.mode \in Modes

\* GlkStream::check_read (FALSE is the panic)
check_read(st) == st.mode \in {"Read", "ReadWrite"}

\* the write calls and the read calls of a stream
PutOps == {"put_char", "put_buffer", "put_char_uni", "put_buffer_uni"}
GetOps == {"get_char", "get_buffer", "get_line", "get_char_uni", "get_buffer_uni", "get_line_uni"}

\* A write call's argument is the sequence of its units: the one byte of
\* put_char, the one char of put_char_uni, the bytes or chars of a buffer.

\* WindowRef::put_*: the String sent to the window in GlkMessage::Write, as
\* its chars (`byte as char` is the char with the byte's value)
win_message(op, arg) == arg

\* the window's answer to GlkMessage::Write: GlkResult::Result(message.len())
win_result(op, arg) == SumLen(win_message(op, arg))

\* GlkStream::await_response on GlkResult::Result(len)
await_response(st, len) == [st EXCEPT !.write_count = st.write_count + len]

\* the usize / WriteResponse::quick(len) a memory backend returns from put_*
mem_put_len(op, arg) ==
    CASE op = "put_char" -> 1
      [] op = "put_buffer" -> Len(arg)
      [] op = "put_char_uni" -> 4
      [] op = "put_buffer_uni" -> 4 * Len(arg)

\* MemStream::put_* by name
mem_put(st, op, arg) ==
    CASE op = "put_char" -> mem_put_char(st, arg[1])
      [] op = "put_buffer" -> mem_put_buffer(st, arg)
      [] op = "put_char_uni" -> mem_put_char_uni(st, arg[1])
      [] op = "put_buffer_uni" -> mem_put_buffer(st, EncodeAll(arg))

\* GlkStreamHandler::put_* of the stream's backend: the WriteResponse and
\* the backend afterwards (WindowRef::write_string answers len 0, wait_needed)
sh_put(st, op, arg) ==
    CASE st.kind = "window" -> [st |-> st, len |-> 0, wait_needed |-> TRUE]
      [] st.kind = "memory" -> [st |-> mem_put(st, op, arg), len |-> mem_put_len(op, arg),
                                wait_needed |-> FALSE]
      [] st.kind = "file" /\ op = "put_char_uni" ->
            [st |-> file_put_char_uni(st, arg[1]), len |-> mem_put_len(op, arg),
             wait_needed |-> FALSE]
      [] st.kind = "file" /\ op = "put_buffer_uni" ->
            [st |-> file_put_buffer_uni(st, arg), len |-> mem_put_len(op, arg),
             wait_needed |-> FALSE]

\* GlkStream::put_char / put_buffer / put_char_uni / put_buffer_uni
gs_put(st, op, arg) ==
    IF ~check_write(st) THEN [panic |-> TRUE, st |-> st, wait_needed |-> FALSE]
    ELSE LET r == sh_put(st, op, arg)
         IN [panic |-> FALSE,
             st |-> [r.st EXCEPT !.write_count = r.st.write_count + r.len],
             wait_needed |-> r.wait_needed]

\* the facade waits for the window's answer when the response asks for it
await_write(r, op, arg) ==
    IF r.wait_needed THEN await_response(r.st, win_result(op, arg)) ELSE r.st

\* the [st, some, ch, out] a read call leaves; some / ch for Option results,
\* out for Vec<u8> and String results (a String as its chars); bug tells
\* that the backend panicked with "Library Bug"
GetResult(st, some, ch, out) ==
    [st |-> st, some |-> some, ch |-> ch, out |-> out, bug |-> FALSE]

\* the result of a backend call that returns an Option
OptionResult(g) == GetResult(g.st, g.some, g.ch, << >>)

\* the result of a backend call that returns a Vec<u8> or a String
VecResult(g) == GetResult(g.st, FALSE, 0, g.out)

\* GlkStreamHandler::get_* of the stream's backend
sh_get(st, op, maxlen) ==
    CASE st.kind = "memory" /\ op = "get_char" ->
            OptionResult(mem_get_char(st))
      [] st.kind = "memory" /\ op = "get_char_uni" ->
            OptionResult(mem_get_char_uni(st))
      [] st.kind = "memory" /\ op = "get_buffer" ->
            VecResult(mem_get_buffer(st, maxlen))
      [] st.kind = "memory" /\ op = "get_line" ->
            VecResult(mem_get_line(st, maxlen))
      [] st.kind = "memory" /\ op = "get_buffer_uni" ->
            VecResult(mem_get_buffer_uni(st, maxlen))
      [] st.kind = "memory" /\ op = "get_line_uni" ->
            VecResult(mem_get_line_uni(st, maxlen))
      [] st.kind = "file" /\ op = "get_char" ->
            OptionResult(file_get_char(st))
      [] st.kind = "file" /\ op = "get_line" ->
            VecResult(file_get_line(st, maxlen))
      [] st.kind = "file" /\ op = "get_char_uni" ->
            OptionResult(file_get_char_uni(st))
      \* every get_* of WindowRef: panic!("Library Bug: Should not call this function")
      [] st.kind = "window" ->
            [GetResult(st, FALSE, 0, << >>) EXCEPT !.bug = TRUE]

\* GlkStream::set_position / GlkStreamHandler::set_position of the backend
\* (a window stream ignores the call)
gs_set_position(st, pos, seekmode, overflow_checks) ==
    CASE st.kind = "memory" -> mem_set_position(st, pos, seekmode, overflow_checks)
      [] st.kind = "file" -> file_set_position(st, pos, seekmode)
      [] st.kind = "window" -> [st |-> st, some |-> TRUE, panic |-> FALSE]

\* read_units that counts a get_char whatever it returned
read_units_always(op, g) ==
    CASE op = "get_char" -> 1
      [] op = "get_char_uni" -> IF g.some THEN 4 ELSE 0
      [] op \in {"get_buffer", "get_line"} -> Len(g.out)
      [] op \in {"get_buffer_uni", "get_line_uni"} -> SumLen(g.out) * 4

\* what GlkStream::get_* adds to read_count for the backend's result
read_units(op, g) ==
    CASE op = "get_char" -> IF g.some THEN 1 ELSE 0
      [] op = "get_char_uni" -> IF g.some THEN 4 ELSE 0
      [] op \in {"get_buffer", "get_line"} -> Len(g.out)
      [] op \in {"get_buffer_uni", "get_line_uni"} -> SumLen(g.out) * 4

\* GlkStream::get_char / get_buffer / get_line / get_char_uni / get_buffer_uni / get_line_uni
gs_get(st, op, maxlen) ==
    IF ~check_read(st)
    THEN [panic |-> TRUE, bug |-> FALSE, st |-> st, some |-> FALSE, ch |-> 0, out |-> << >>]
    ELSE LET counted(g) ==
                [panic |-> g.bug, bug |-> g.bug,
                 st |-> [g.st EXCEPT !.read_count = g.st.read_count + read_units(op, g)],
                 some |-> g.some, ch |-> g.ch, out |-> g.out]
         IN counted(sh_get(st, op, maxlen))

----------------------------------------------------------------------------
\* Facade queries (entry/glk_win.rs), on window IDs

\* Glk::window_iterate
window_iterate == get_iter(WM)

\* Glk::window_get_parent
window_get_parent_in(m, win) ==
    LET a == get_ref(m, win)
        parent == IF a = Nil THEN Nil ELSE get_parent(m.heap, a)
    IN IF parent = Nil THEN Nil
       ELSE IF m.heap[parent].wintype = "Root" THEN Nil
       ELSE m.heap[parent].this_id

window_get_parent(win) == window_get_parent_in(WM, win)

\* Glk::window_get_sibling
window_get_sibling_in(m, win) ==
    LET a == get_ref(m, win)
        sib == IF a = Nil THEN Nil ELSE get_sibling(m.heap, a)
    IN IF sib = Nil THEN Nil ELSE m.heap[sib].this_id

window_get_sibling(win) == window_get_sibling_in(WM, win)

\* Glk::window_get_root
window_get_root == get_root(WM)

\* Glk::window_get_stream
window_get_stream(win) ==
    IF get_ref(WM, win) = Nil THEN Nil ELSE heap[get_ref(WM, win)].stream

\* Glk::window_get_arrangement: (Option<method>, Option<key window ID>)
window_get_arrangement(win) ==
    LET a == get_ref(WM, win)
        arr == IF a = Nil THEN NoArrangement ELSE get_arrangement(heap, a)
    IN IF ~arr.some THEN [method |-> NoMethod, keywin |-> Nil]
       ELSE [method |-> arr.method,
             keywin |-> IF arr.keywin = Nil THEN Nil ELSE heap[arr.keywin].this_id]

----------------------------------------------------------------------------
\* The facade calls

Call(op, win, wintype, ret) ==
    [op |-> op, win |-> win, wintype |-> wintype, ret |-> ret,
     pre_parent |-> Nil, pre_sibling |-> Nil,
     stream |-> Nil, arg |-> << >>, maxlen |-> Nil,
     some |-> FALSE, ch |-> 0, out |-> << >>, read_count |-> 0, write_count |-> 0,
     seekmode |-> "None", event |-> NoneEvent, bug |-> FALSE]

\* a call on a stream: the ID and the argument given
StreamCall(op, stream, arg, maxlen) ==
    [Call(op, Nil, "None", Nil) EXCEPT !.stream = stream, !.arg = arg, !.maxlen = maxlen]

Init ==
    /\ root = Nil
    /\ windows = << >>
    /\ val = 0
    /\ heap = << >>
    /\ nextAddr = 0
    /\ streams = << >>
    /\ sval = 0
    /\ panicked = FALSE
    /\ last = Call("new", Nil, "None", Nil)
    /\ pending = << >>
    /\ timer_fired = FALSE
    /\ timer_interval = 0
    /\ timer_thread = FALSE
    /\ timer_update_channel = FALSE
    /\ rx = << >>
    /\ next = << >>
    /\ tt = NoThread
    /\ caller = "idle"
    /\ now = 0
    /\ sent = << >>
    /\ delivered = << >>
    /\ due = NoDue
    /\ updated = Nil

Panic(call) ==
    /\ panicked' = TRUE
    /\ last' = [call EXCEPT !.ret = Nil]
    /\ UNCHANGED <<root, windows, val, heap, nextAddr, streams, sval, evars>>

\* what window_open does once the window manager has made the window
OpenFinish(r, call) ==
    IF r.panic THEN Panic(call)
    ELSE IF r.ret = Nil
    THEN /\ last' = call
         /\ UNCHANGED <<root, windows, val, heap, nextAddr, streams, sval, panicked, evars>>
    ELSE LET a == get_ref(r.m, r.ret)
             ns == new_stream(streams, sval, NewWindowStream(a))
             h == [r.m.heap EXCEPT ![a].stream = ns.ret]
         IN /\ root' = r.m.root
            /\ windows' = r.m.windows
            /\ val' = r.m.val
            /\ nextAddr' = r.m.na
            /\ streams' = ns.streams
            /\ sval' = ns.sval
            /\ heap' = Collect(h, r.m.windows, ns.streams)
            /\ last' = [call EXCEPT !.ret = r.ret]
            /\ UNCHANGED <<panicked, evars>>

\* Glk::window_open(None, wintype, _, _)
window_open(wintype) ==
    /\ ~panicked
    /\ val + 2 <= MaxVal
    /\ IF wintype = "Pair"
       THEN /\ last' = Call("open", Nil, wintype, Nil)
            /\ UNCHANGED <<root, windows, val, heap, nextAddr, streams, sval, panicked, evars>>
       ELSE OpenFinish(open_window(WM, wintype), Call("open", Nil, wintype, Nil))

\* Glk::window_open(Some(parent), wintype, method, _)
window_split(parent, wintype, method) ==
    /\ ~panicked
    /\ val + 2 <= MaxVal
    /\ LET call == [Call("split", parent, wintype, Nil)
                        EXCEPT !.pre_parent = window_get_parent(parent),
                               !.pre_sibling = window_get_sibling(parent)]
       IN IF wintype = "Pair"
          THEN /\ last' = call
               /\ UNCHANGED <<root, windows, val, heap, nextAddr, streams, sval, panicked, evars>>
          ELSE OpenFinish(wm_split(WM, parent, method, wintype), call)

\* Glk::window_close(win)
window_close(win) ==
    /\ ~panicked
    /\ IF get_ref(WM, win) = Nil
       THEN /\ last' = Call("close", win, "None", Nil)
            /\ UNCHANGED <<root, windows, val, heap, nextAddr, streams, sval, panicked, evars>>
       ELSE LET stream == heap[get_ref(WM, win)].stream
                r == wm_close(WM, win)
                sc == sm_close(streams, stream)
            IN IF r.panic THEN Panic(Call("close", win, "None", Nil))
               ELSE /\ windows' = r.m.windows
                    /\ streams' = sc.streams
                    /\ heap' = Collect(r.m.heap, r.m.windows, sc.streams)
                    /\ last' = [Call("close", win, "None", IF sc.some THEN 0 ELSE Nil)
                                    EXCEPT !.read_count = sc.read_count,
                                           !.write_count = sc.write_count]
                    /\ UNCHANGED <<root, val, nextAddr, sval, panicked, evars>>

\* Glk::window_set_arrangement(win, method, keywin)
window_set_arrangement(win, method, keywin) ==
    /\ ~panicked
    /\ win \in DOMAIN windows
    /\ keywin = Nil \/ keywin \in DOMAIN windows
    /\ LET r == set_arrangement(heap, windows[win], method,
                                IF keywin = Nil THEN Nil ELSE windows[keywin])
       IN IF r.panic THEN Panic(Call("set_arrangement", win, "None", Nil))
          ELSE /\ heap' = r.heap
               /\ last' = Call("set_arrangement", win, "None", Nil)
               /\ UNCHANGED <<root, windows, val, nextAddr, streams, sval, panicked, evars>>

\* Glk::window_set_echo_stream(win, stream): any ID is stored as given
window_set_echo_stream(win, stream) ==
    /\ ~panicked
    /\ heap' = IF win \in DOMAIN windows
               THEN [heap EXCEPT ![windows[win]].echo_stream = stream]
               ELSE heap
    /\ last' = [Call("set_echo", win, "None", Nil) EXCEPT !.stream = stream]
    /\ UNCHANGED <<root, windows, val, nextAddr, streams, sval, panicked, evars>>

\* Glk::window_get_echo_stream
window_get_echo_stream(win) ==
    IF win \in DOMAIN windows THEN heap[windows[win]].echo_stream ELSE Nil

\* GlkStream::get_echo_stream: WindowRef answers its window's echo_stream,
\* the other backends None
get_echo_stream(h, st) == IF st.kind = "window" THEN h[st.sh].echo_stream ELSE Nil

\* what opening a stream leaves: the new GlkStream under the next ID
OpenStream(st, op) ==
    LET ns == new_stream(streams, sval, st)
    IN /\ streams' = ns.streams
       /\ sval' = ns.sval
       /\ last' = [StreamCall(op, ns.ret, st.buf, Nil) EXCEPT !.ret = ns.ret]
       /\ UNCHANGED <<root, windows, val, heap, nextAddr, panicked, evars>>

\* Glk::stream_open_memory(buf, file_mode, _)
stream_open_memory(buf, file_mode) ==
    /\ ~panicked
    /\ sval < MaxSval
    /\ OpenStream(NewMemStream(buf, file_mode), "open_memory")

\* Glk::stream_open_file(fileref, mode, _) on a file that holds `contents`
stream_open_file(contents, mode) ==
    /\ ~panicked
    /\ sval < MaxSval
    /\ OpenStream(NewFileStream(contents, mode), "open_file")

\* the loop of stream_close over window_iterate: remove_echo_stream_if_matches
remove_echo_stream_if_matches(h, w, streamid) ==
    LET hit == {w[k] : k \in (DOMAIN w) \ {0}}
    IN [a \in DOMAIN h |->
            IF a \in hit /\ h[a].echo_stream = streamid
            THEN [h[a] EXCEPT !.echo_stream = Nil] ELSE h[a]]

\* stream_close without the is_window_stream test
stream_close_any(streamid) ==
    /\ ~panicked
    /\ LET call == StreamCall("stream_close", streamid, << >>, Nil)
       IN IF streamid \notin DOMAIN streams
          THEN /\ last' = call
               /\ UNCHANGED <<root, windows, val, heap, nextAddr, streams, sval, panicked, evars>>
          ELSE LET sc == sm_close(streams, streamid)
               IN /\ streams' = sc.streams
                  /\ heap' = Collect(remove_echo_stream_if_matches(heap, windows, streamid),
                                     windows, sc.streams)
                  /\ last' = [call EXCEPT !.ret = 0,
                                          !.read_count = sc.read_count,
                                          !.write_count = sc.write_count]
                  /\ UNCHANGED <<root, windows, val, nextAddr, sval, panicked, evars>>

\* Glk::stream_close(streamid)
stream_close(streamid) ==
    /\ ~panicked
    /\ LET call == StreamCall("stream_close", streamid, << >>, Nil)
       IN IF streamid \notin DOMAIN streams \/ streams[streamid].kind = "window"
          THEN /\ last' = call
               /\ UNCHANGED <<root, windows, val, heap, nextAddr, streams, sval, panicked, evars>>
          ELSE LET st == streams[streamid]
                   sc == sm_close(streams, streamid)
               IN /\ streams' = sc.streams
                  /\ heap' = remove_echo_stream_if_matches(heap, windows, streamid)
                  /\ last' = [call EXCEPT !.ret = 0,
                                          !.read_count = sc.read_count,
                                          !.write_count = sc.write_count,
                                          !.some = st.kind = "memory",
                                          !.out = IF st.kind = "memory" THEN st.buf ELSE << >>]
                  /\ UNCHANGED <<root, windows, val, nextAddr, sval, panicked, evars>>

\* the calls on a file stream that are followed into FileStream: reads by
\* get_char and get_line; every other call only as far as the mode gate
Followed(st, op) ==
    st.kind = "file" =>
        \/ op \in {"get_char", "get_line"}
        \/ op \in GetOps /\ ~check_read(st)
        \/ op \in PutOps /\ ~check_write(st)

RECURSIVE put_chain(_, _, _, _, _, _)
\* Glk::put_*_stream(streamid, ..): the write, then the same call on the
\* echo stream; a chain that comes back to a stream never returns (the
\* recursion overflows the stack)
put_chain(h, s, streamid, op, arg, seen) ==
    IF streamid \notin DOMAIN s THEN [panic |-> FALSE, streams |-> s]
    ELSE IF streamid \in seen THEN [panic |-> TRUE, streams |-> s]
    ELSE LET r == gs_put(s[streamid], op, arg)
             s1 == [s EXCEPT ![streamid] = await_write(r, op, arg)]
             echo == get_echo_stream(h, s1[streamid])
         IN IF r.panic THEN [panic |-> TRUE, streams |-> s]
            ELSE IF echo = Nil THEN [panic |-> FALSE, streams |-> s1]
            ELSE put_chain(h, s1, echo, op, arg, seen \cup {streamid})

RECURSIVE EchoChain(_, _)
\* the streams a write to streamid reaches through echo streams
EchoChain(streamid, seen) ==
    IF streamid \notin DOMAIN streams \/ streamid \in seen THEN seen
    ELSE LET echo == get_echo_stream(heap, streams[streamid])
         IN IF echo = Nil THEN seen \cup {streamid}
            ELSE EchoChain(echo, seen \cup {streamid})

\* the writes a bounded client makes: none that reaches a stream whose
\* write_count is at the bound, none into a backend call that is not followed
CanPut(streamid, op) ==
    \A j \in EchoChain(streamid, {}) :
        /\ streams[j].write_count < MaxCount
        /\ Followed(streams[j], op)

\* the reads a bounded client makes
CanGet(streamid, op) ==
    streamid \in DOMAIN streams =>
        /\ streams[streamid].read_count < MaxRead
        /\ Followed(streams[streamid], op)

\* Glk::put_char_stream / put_buffer_stream / put_char_stream_uni / put_buffer_stream_uni
put_stream(streamid, op, arg) ==
    /\ ~panicked
    /\ LET r == put_chain(heap, streams, streamid, op, arg, {})
           call == StreamCall(op, streamid, arg, Nil)
       IN IF r.panic THEN Panic(call)
          ELSE /\ streams' = r.streams
               /\ last' = call
               /\ UNCHANGED <<root, windows, val, heap, nextAddr, sval, panicked, evars>>

\* Glk::put_char_stream(streamid, ch)
put_char_stream(streamid, ch) == put_stream(streamid, "put_char", << ch >>)

\* Glk::put_buffer_stream(streamid, buf)
put_buffer_stream(streamid, buf) == put_stream(streamid, "put_buffer", buf)

\* Glk::put_char_stream_uni(streamid, ch)
put_char_stream_uni(streamid, ch) == put_stream(streamid, "put_char_uni", << ch >>)

\* Glk::put_buffer_stream_uni(streamid, buf)
put_buffer_stream_uni(streamid, buf) == put_stream(streamid, "put_buffer_uni", buf)

\* Glk::get_char_stream / get_buffer_stream / get_line_stream and their _uni forms
get_stream(streamid, op, maxlen) ==
    /\ ~panicked
    /\ LET call == StreamCall(op, streamid, << >>, maxlen)
       IN IF streamid \notin DOMAIN streams
          THEN /\ last' = call
               /\ UNCHANGED <<root, windows, val, heap, nextAddr, streams, sval, panicked, evars>>
          ELSE LET done(g) ==
                       IF g.panic THEN Panic([call EXCEPT !.bug = g.bug])
                       ELSE /\ streams' = [streams EXCEPT ![streamid] = g.st]
                            /\ last' = [call EXCEPT !.some = g.some, !.ch = g.ch, !.out = g.out]
                            /\ UNCHANGED <<root, windows, val, heap, nextAddr, sval, panicked, evars>>
               IN done(gs_get(streams[streamid], op, maxlen))

\* Glk::get_char_stream(streamid)
get_char_stream(streamid) == get_stream(streamid, "get_char", Nil)

\* Glk::get_buffer_stream(streamid, len)
get_buffer_stream(streamid, len) == get_stream(streamid, "get_buffer", len)

\* Glk::get_line_stream(streamid, len)
get_line_stream(streamid, len) == get_stream(streamid, "get_line", len)

\* Glk::get_char_stream_uni(streamid)
get_char_stream_uni(streamid) == get_stream(streamid, "get_char_uni", Nil)

\* Glk::get_buffer_stream_uni(streamid, len)
get_buffer_stream_uni(streamid, len) == get_stream(streamid, "get_buffer_uni", len)

\* Glk::get_line_stream_uni(streamid, len)
get_line_stream_uni(streamid, len) == get_stream(streamid, "get_line_uni", len)

\* Glk::stream_set_position(streamid, pos, mode); overflow_checks tells
\* whether the build checks integer overflow
stream_set_position(streamid, pos, mode, overflow_checks) ==
    /\ ~panicked
    /\ LET call == [StreamCall("set_position", streamid, << pos >>, Nil)
                        EXCEPT !.seekmode = mode]
       IN IF streamid \notin DOMAIN streams
          THEN /\ last' = call
               /\ UNCHANGED <<root, windows, val, heap, nextAddr, streams, sval, panicked, evars>>
          ELSE LET done(r) ==
                       IF r.panic THEN Panic(call)
                       ELSE /\ streams' = [streams EXCEPT ![streamid] = r.st]
                            /\ last' = [call EXCEPT !.some = r.some]
                            /\ UNCHANGED <<root, windows, val, heap, nextAddr, sval, panicked, evars>>
               IN done(gs_set_position(streams[streamid], pos, mode, overflow_checks))

\* Glk::stream_get_position(streamid) on a memory stream (the cursor) or
\* a window stream (always 0)
stream_get_position(streamid) ==
    /\ ~panicked
    /\ streamid \in DOMAIN streams => streams[streamid].kind \in {"memory", "window"}
    /\ LET call == StreamCall("get_position", streamid, << >>, Nil)
       IN /\ last' = IF streamid \in DOMAIN streams
                     THEN [call EXCEPT !.some = TRUE,
                                       !.ch = IF streams[streamid].kind = "memory"
                                              THEN streams[streamid].cursor ELSE 0]
                     ELSE call
          /\ UNCHANGED <<root, windows, val, heap, nextAddr, streams, sval, panicked, evars>>

\* Glk::request_line_event / request_line_event_uni(win, buf, initlen): the
\* window is looked up with expect; the request of a live window goes to
\* the event manager and changes no window or stream
line_event_request(op, win) ==
    /\ ~panicked
    /\ IF get_ref(WM, win) = Nil
       THEN Panic(Call(op, win, "None", Nil))
       ELSE /\ last' = Call(op, win, "None", Nil)
            /\ UNCHANGED <<root, windows, val, heap, nextAddr, streams, sval, panicked, evars>>

\* Glk::request_line_event(win, buf, initlen)
request_line_event(win) == line_event_request("request_line_event", win)

\* Glk::request_line_event_uni(win, buf, initlen)
request_line_event_uni(win) == line_event_request("request_line_event_uni", win)

----------------------------------------------------------------------------
\* EventManager, the timer thread and the clock

\* what an event call leaves alone: the window and stream managers
NoManagerChange == UNCHANGED <<root, windows, val, heap, nextAddr, streams, sval, panicked>>

\* the state of the event manager a call works on
Mgr(p, fired) == [pending |-> p, timer_fired |-> fired]

RECURSIVE fill_event_queue_front(_, _)
\* fill_event_queue that puts a received event in front of the queue
fill_event_queue_front(m, chan) ==
    IF chan = << >> THEN m
    ELSE IF Head(chan).kind = "Timer"
    THEN fill_event_queue_front(Mgr(m.pending, TRUE), Tail(chan))
    ELSE fill_event_queue_front(Mgr(<< Head(chan) >> \o m.pending, m.timer_fired), Tail(chan))

RECURSIVE fill_event_queue(_, _)
\* EventManager::fill_event_queue: try_recv until the channel is empty; a
\* Timer sets timer_fired, any other event goes to the back of pending
fill_event_queue(m, chan) ==
    IF chan = << >> THEN m
    ELSE IF Head(chan).kind = "Timer"
    THEN fill_event_queue(Mgr(m.pending, TRUE), Tail(chan))
    ELSE fill_event_queue(Mgr(Append(m.pending, Head(chan)), m.timer_fired), Tail(chan))

\* what pop_event returns: the event, the manager afterwards, and whether
\* timer_interval was sent on the update channel
Popped(event, m, send) == [event |-> event, m |-> m, send |-> send]

\* pop_event that looks at timer_fired before the pending queue
pop_event_timer_first(m, chan) ==
    LET popped(f) ==
            IF f.timer_fired THEN Popped(TimerEvent, Mgr(f.pending, FALSE), TRUE)
            ELSE IF f.pending # << >>
            THEN Popped(Head(f.pending), Mgr(Tail(f.pending), f.timer_fired), FALSE)
            ELSE Popped(NoneEvent, f, FALSE)
    IN popped(fill_event_queue(m, chan))

\* EventManager::pop_event with the channel holding chan
pop_event(m, chan) ==
    LET popped(f) ==
            IF f.pending # << >>
            THEN Popped(Head(f.pending), Mgr(Tail(f.pending), f.timer_fired), FALSE)
            ELSE IF f.timer_fired THEN Popped(TimerEvent, Mgr(f.pending, FALSE), TRUE)
            ELSE Popped(NoneEvent, f, FALSE)
    IN popped(fill_event_queue(m, chan))

\* an interval in the update channel, with the function that sent it
Update(ms, from) == [ms |-> ms, from |-> from]

\* Sender::send on the update channel; it fails, and the failure is
\* ignored, when there is no channel or the timer thread has dropped its end
SendUpdate(q, ms, from) ==
    IF timer_update_channel /\ tt.pc \notin {"none", "done"}
    THEN Append(q, Update(ms, from)) ELSE q

\* the genuine events of a queue, as their ids
RECURSIVE GenuineIds(_)
GenuineIds(q) ==
    IF q = << >> THEN << >>
    ELSE IF Head(q).kind = "CharInput" THEN << Head(q).id >> \o GenuineIds(Tail(q))
    ELSE GenuineIds(Tail(q))

\* the time from which the caller is owed the next tick when the wait of
\* the timer is started again now, and what started it again
Owed(ms, by) == IF ms > 0 THEN [at |-> now + ms, by |-> by] ELSE NoDue

\* an event call returns event e
Returned(op, e) ==
    /\ last' = [Call(op, Nil, "None", Nil) EXCEPT !.event = e]
    /\ delivered' = IF e.kind = "CharInput" THEN Append(delivered, e.id) ELSE delivered
    /\ due' = IF e.kind = "Timer" THEN Owed(timer_interval, "Timer") ELSE due
    /\ caller' = "idle"

\* Glk::select_poll / EventManager::pop_event
select_poll ==
    /\ ~panicked /\ caller = "idle"
    /\ LET done(r) ==
            /\ pending' = r.m.pending
            /\ timer_fired' = r.m.timer_fired
            /\ next' = IF r.send THEN SendUpdate(next, timer_interval, "pop_event") ELSE next
            /\ Returned("select_poll", r.event)
       IN done(pop_event(Mgr(pending, timer_fired), rx))
    /\ rx' = << >>
    /\ NoManagerChange
    /\ UNCHANGED <<timer_interval, timer_thread, timer_update_channel, tt, now, sent, updated>>

\* Glk::select / EventManager::block_until_event up to its rx.recv(): the
\* event of pop_event is returned unless it is None; on None the interval
\* goes to the timer thread and the caller blocks
select ==
    /\ ~panicked /\ caller = "idle"
    /\ LET done(r) ==
            /\ pending' = r.m.pending
            /\ timer_fired' = r.m.timer_fired
            /\ IF r.event.kind = "None"
               THEN /\ next' = SendUpdate(next, timer_interval, "block_until_event")
                    /\ caller' = "select"
                    /\ last' = Call("select_blocks", Nil, "None", Nil)
                    /\ due' = Owed(timer_interval, "block_until_event")
                    /\ UNCHANGED delivered
               ELSE /\ next' = IF r.send THEN SendUpdate(next, timer_interval, "pop_event")
                               ELSE next
                    /\ Returned("select", r.event)
       IN done(pop_event(Mgr(pending, timer_fired), rx))
    /\ rx' = << >>
    /\ NoManagerChange
    /\ UNCHANGED <<timer_interval, timer_thread, timer_update_channel, tt, now, sent, updated>>

\* block_until_event: rx.recv() returns the next event of the channel as it is
select_recv ==
    /\ ~panicked /\ caller = "select"
    /\ rx # << >>
    /\ rx' = Tail(rx)
    /\ Returned("select", Head(rx))
    /\ NoManagerChange
    /\ UNCHANGED <<pending, timer_fired, timer_interval, timer_thread,
                   timer_update_channel, next, tt, now, sent, updated>>

\* Glk::request_timer_events / EventManager::set_timer(ms) up to its join:
\* with a thread handle the interval is sent, and 0 goes on to join the
\* thread; without one a channel and a thread are made, whatever ms is
request_timer_events(ms) ==
    /\ ~panicked /\ caller = "idle"
    /\ timer_interval' = ms
    /\ due' = Owed(ms, "set_timer")
    /\ updated' = IF ms > 0 THEN now ELSE Nil
    /\ last' = [Call("request_timer_events", Nil, "None", Nil) EXCEPT !.arg = << ms >>]
    /\ IF timer_thread
       THEN /\ next' = SendUpdate(next, ms, "set_timer")
            /\ caller' = IF ms = 0 THEN "join" ELSE "idle"
            /\ UNCHANGED <<timer_thread, timer_update_channel, tt>>
       ELSE /\ timer_update_channel' = TRUE
            /\ timer_thread' = TRUE
            /\ tt' = Thread("start", ms, 0)
            /\ next' = << >>
            /\ UNCHANGED caller
    /\ NoManagerChange
    /\ UNCHANGED <<pending, timer_fired, rx, now, sent, delivered>>

\* set_timer(0): tt.join() returns once the thread has ended; the handle is
\* taken and the channel dropped
set_timer_join ==
    /\ ~panicked /\ caller = "join"
    /\ tt.pc = "done"
    /\ timer_thread' = FALSE
    /\ timer_update_channel' = FALSE
    /\ tt' = NoThread
    /\ caller' = "idle"
    /\ last' = [Call("request_timer_events", Nil, "None", 0) EXCEPT !.arg = << 0 >>]
    /\ NoManagerChange
    /\ UNCHANGED <<pending, timer_fired, timer_interval, rx, next, now, sent, delivered, due, updated>>

\* a timer thread whose loop goes on when the interval is zero
Waiting_on_zero(ms, q) ==
    /\ tt' = Thread("recv_timeout", ms, now + ms)
    /\ next' = q

\* the timer thread after current_interval became ms: the loop ends on zero
\* (the receiver is dropped with what it holds), else recv_timeout starts
Waiting(ms, q) ==
    IF ms = 0 THEN /\ tt' = Thread("done", 0, 0)
                   /\ next' = << >>
    ELSE /\ tt' = Thread("recv_timeout", ms, now + ms)
         /\ next' = q

\* what a step of the timer thread leaves alone
ThreadStep ==
    /\ ~panicked
    /\ last' = Call("timer_thread", Nil, "None", Nil)
    /\ NoManagerChange
    /\ UNCHANGED <<pending, timer_fired, timer_interval, timer_thread,
                   timer_update_channel, caller, now, sent, delivered, due, updated>>

\* timer_thread: entry, with the interval given to the spawn
timer_thread_start ==
    /\ tt.pc = "start"
    /\ Waiting(tt.current_interval, next)
    /\ ThreadStep
    /\ UNCHANGED rx

\* timer_thread: next.recv_timeout / next.recv() gets a new interval
timer_thread_update ==
    /\ tt.pc \in {"recv_timeout", "recv"}
    /\ next # << >>
    /\ Waiting(Head(next).ms, Tail(next))
    /\ ThreadStep
    /\ UNCHANGED rx

\* timer_thread: recv_timeout ends with Timeout
timer_thread_timeout ==
    /\ tt.pc = "recv_timeout"
    /\ next = << >>
    /\ now >= tt.deadline
    /\ tt' = [tt EXCEPT !.pc = "fire"]
    /\ ThreadStep
    /\ UNCHANGED <<rx, next>>

\* timer_thread: fire.send(GlkEvent::Timer), then on to next.recv()
timer_thread_fire ==
    /\ tt.pc = "fire"
    /\ rx' = Append(rx, TimerEvent)
    /\ tt' = [tt EXCEPT !.pc = "recv"]
    /\ ThreadStep
    /\ UNCHANGED next

\* a thread that can take a step now takes it before time passes
Prompt ==
    \/ tt.pc \in {"start", "fire"}
    \/ tt.pc \in {"recv_timeout", "recv"} /\ next # << >>
    \/ tt.pc = "recv_timeout" /\ now >= tt.deadline
    \/ caller = "select" /\ rx # << >>
    \/ caller = "join" /\ tt.pc = "done"

\* the clock advances
Tick ==
    /\ ~panicked
    /\ now < MaxTime
    /\ ~Prompt
    /\ now' = now + 1
    /\ last' = Call("tick", Nil, "None", Nil)
    /\ NoManagerChange
    /\ UNCHANGED <<pending, timer_fired, timer_interval, timer_thread, timer_update_channel,
                   rx, next, tt, caller, sent, delivered, due, updated>>

\* a window implementation sends event e on its clone of EventManager.tx
window_sends(e) ==
    /\ ~panicked
    /\ rx' = Append(rx, e)
    /\ sent' = IF e.kind = "CharInput" THEN Append(sent, e.id) ELSE sent
    /\ last' = [Call("window_sends", Nil, "None", Nil) EXCEPT !.event = e]
    /\ NoManagerChange
    /\ UNCHANGED <<pending, timer_fired, timer_interval, timer_thread, timer_update_channel,
                   next, tt, caller, now, delivered, due, updated>>

Next ==
    \/ \E t \in WinTypes : window_open(t)
    \/ \E p \in WinIds, t \in WinTypes, m \in Methods \cup {NoMethod} : window_split(p, t, m)
    \/ \E w \in WinIds : window_close(w)
    \/ \E w \in WinIds, m \in Methods, k \in WinIds \cup {Nil} : window_set_arrangement(w, m, k)

Spec == Init /\ [][Next]_vars

----------------------------------------------------------------------------
\* Observations used by the properties

\* the Window registered under an ID
Obj(w) == heap[windows[w]]

\* the registered window is a Pair
IsPair(w) == Obj(w).wintype = "Pair"

\* the IDs of a registered window's children
ChildIds(w) == {heap[a].this_id : a \in Kids(heap, windows[w])}

----------------------------------------------------------------------------
\* Specifications of the stream subsystem

\* bound on WindowManager.val where windows and streams are used together
MaxEchoVal == 4

\* the window IDs, buffers and bytes a client uses there
EchoWinIds == 0..(MaxEchoVal - 1)
EchoBufs == {<< >>}
EchoBytes == {65, 233}

\* windows with echo streams: a client that opens, splits and closes
\* windows, may open a memory stream first and close it at any time, sets
\* echo streams and writes
EchoNext ==
    \/ val + 2 <= MaxEchoVal /\ window_open("TextBuffer")
    \/ \E p \in EchoWinIds : val + 2 <= MaxEchoVal /\ window_split(p, "TextBuffer", "Above40")
    \/ \E w \in EchoWinIds : window_close(w)
    \/ \E w \in EchoWinIds, i \in StreamIds \cup {Nil} :
            w \in DOMAIN windows /\ Obj(w).wintype = "TextBuffer" /\ window_set_echo_stream(w, i)
    \/ \E b \in EchoBufs : sval = 0 /\ stream_open_memory(b, "Write")
    \/ \E i \in StreamIds : stream_close(i)
    \/ \E i \in StreamIds, ch \in EchoBytes : CanPut(i, "put_char") /\ put_char_stream(i, ch)

EchoSpec == Init /\ [][EchoNext]_vars

\* the buffers a client hands to stream_open_memory: bytes, or the four
\* bytes of a char
MemBufs == BytesUpTo(MaxLen) \cup {BigEndian4(c) : c \in Chars}

\* the lengths a client passes to get_buffer / get_line and their _uni forms
MaxLens == {Nil} \cup (0..MaxLen)

\* the IDs a client passes while it works on a stream (the stream's own),
\* and while no stream is open (any ID: none is live)
CallIds == IF DOMAIN streams = {} THEN StreamIds ELSE DOMAIN streams

\* one stream: a client that opens a memory stream, a file stream or a
\* window, reads and writes it, closes it, and goes on calling with its ID
StreamNext ==
    \/ \E b \in MemBufs, m \in Modes :
            sval = 0 /\ stream_open_memory(b, m)
    \/ \E b \in BytesUpTo(MaxLen), m \in Modes :
            sval = 0 /\ stream_open_file(b, m)
    \/ sval = 0 /\ val = 0 /\ window_open("TextBuffer")
    \/ window_close(1)
    \/ \E i \in CallIds : stream_close(i)
    \/ \E i \in CallIds, ch \in {65, 233} : CanPut(i, "put_char") /\ put_char_stream(i, ch)
    \/ \E i \in CallIds : CanPut(i, "put_buffer") /\ put_buffer_stream(i, << 65, Newline >>)
    \/ \E i \in CallIds, ch \in {233, 8364} : CanPut(i, "put_char_uni") /\ put_char_stream_uni(i, ch)
    \/ \E i \in CallIds : CanPut(i, "put_buffer_uni") /\ put_buffer_stream_uni(i, << 65, 233 >>)
    \/ \E i \in CallIds : CanGet(i, "get_char") /\ get_char_stream(i)
    \/ \E i \in CallIds, n \in MaxLens : CanGet(i, "get_buffer") /\ get_buffer_stream(i, n)
    \/ \E i \in CallIds, n \in MaxLens : CanGet(i, "get_line") /\ get_line_stream(i, n)
    \/ \E i \in CallIds : CanGet(i, "get_char_uni") /\ get_char_stream_uni(i)
    \/ \E i \in CallIds, n \in MaxLens : CanGet(i, "get_buffer_uni") /\ get_buffer_stream_uni(i, n)
    \/ \E i \in CallIds, n \in MaxLens : CanGet(i, "get_line_uni") /\ get_line_stream_uni(i, n)

StreamSpec == Init /\ [][StreamNext]_vars

\* a client that reads memory streams byte by byte: it opens a stream for
\* reading, calls get_char_stream, and closes the stream
GetCharNext ==
    \/ \E b \in BytesUpTo(MaxLen) : DOMAIN streams = {} /\ stream_open_memory(b, "Read")
    \/ \E i \in StreamIds : CanGet(i, "get_char") /\ get_char_stream(i)
    \/ \E i \in StreamIds : stream_close(i)

GetCharSpec == Init /\ [][GetCharNext]_vars

\* the i32 positions a client seeks to: around the buffer and the extremes
SeekPositions == ((0 - MaxLen - 1)..(MaxLen + 1)) \cup {MaxI32, (0 - MaxI32) - 1}

\* one memory stream: a client that opens it, reads and writes single
\* bytes, seeks, asks for the position and closes it
SeekNext ==
    \/ \E b \in BytesUpTo(MaxLen), m \in Modes : sval = 0 /\ stream_open_memory(b, m)
    \/ \E i \in CallIds : CanGet(i, "get_char") /\ get_char_stream(i)
    \/ \E i \in CallIds : CanPut(i, "put_char") /\ put_char_stream(i, 65)
    \/ \E i \in CallIds, pos \in SeekPositions, m \in SeekModes, oc \in BOOLEAN :
            stream_set_position(i, pos, m, oc)
    \/ \E i \in CallIds : stream_get_position(i)
    \/ \E i \in CallIds : stream_close(i)

SeekSpec == Init /\ [][SeekNext]_vars

\* one memory stream: a client that opens it for reading and writing,
\* writes and reads bytes and chars, seeks and closes it
MemNext ==
    \/ \E b \in MemBufs : sval = 0 /\ stream_open_memory(b, "ReadWrite")
    \/ \E i \in CallIds : CanPut(i, "put_char") /\ put_char_stream(i, 65)
    \/ \E i \in CallIds : CanPut(i, "put_buffer") /\ put_buffer_stream(i, << 65, Newline >>)
    \/ \E i \in CallIds : CanPut(i, "put_char_uni") /\ put_char_stream_uni(i, 233)
    \/ \E i \in CallIds : CanGet(i, "get_char") /\ get_char_stream(i)
    \/ \E i \in CallIds, n \in MaxLens : CanGet(i, "get_line") /\ get_line_stream(i, n)
    \/ \E i \in CallIds : CanGet(i, "get_char_uni") /\ get_char_stream_uni(i)
    \/ \E i \in CallIds, n \in MaxLens : CanGet(i, "get_buffer_uni") /\ get_buffer_stream_uni(i, n)
    \/ \E i \in CallIds, pos \in {0 - 1, 0, 1, MaxI32}, m \in SeekModes, oc \in BOOLEAN :
            stream_set_position(i, pos, m, oc)
    \/ \E i \in CallIds : stream_close(i)

MemSpec == Init /\ [][MemNext]_vars

\* code points written by a client
MaxUni == 2

\* the ends of the 1-, 2-, 3- and 4-byte ranges and of the surrogate gap
Utf8Chars == {0, 127, 128, 2047, 2048, 55295, 57344, 65535, 65536, 1114111}

\* one file: a client that opens it for reading and writing, writes code
\* points, seeks back to the start and reads them, and closes the stream.
\* Writes and seeks come before the first read (the BufReader keeps its own
\* buffer once it exists)
Utf8Next ==
    \/ sval = 0 /\ stream_open_file(<< >>, "ReadWrite")
    \/ \E i \in DOMAIN streams, c \in Utf8Chars :
            /\ ~streams[i].br
            /\ streams[i].write_count < 4 * MaxUni
            /\ put_char_stream_uni(i, c)
    \/ \E i \in DOMAIN streams, oc \in BOOLEAN :
            ~streams[i].br /\ stream_set_position(i, 0, "Start", oc)
    \/ \E i \in DOMAIN streams :
            /\ streams[i].read_count < 4 * MaxUni
            /\ get_char_stream_uni(i)
    \/ \E i \in CallIds : stream_close(i)

Utf8Spec == Init /\ [][Utf8Next]_vars

\* length of the files a client decodes
MaxDecode == 4

\* ASCII, continuation bytes, the leads of two-, three- and four-byte
\* forms, and bytes above 0xF7
DecodeBytes == {65, 128, 191, 194, 224, 240, 248, 255}

\* one file of arbitrary bytes: a client that opens it for reading, decodes
\* code points from it one after the other, and closes the stream
DecodeNext ==
    \/ \E n \in 1..MaxDecode : \E b \in [1..n -> DecodeBytes] :
            sval = 0 /\ stream_open_file(b, "Read")
    \/ \E i \in DOMAIN streams : get_char_stream_uni(i)
    \/ \E i \in CallIds : stream_close(i)

DecodeSpec == Init /\ [][DecodeNext]_vars

\* one window and one memory stream: a client that opens and closes them
\* and calls with IDs that are live, closed or never given out
IdNext ==
    \/ val = 0 /\ window_open("TextBuffer")
    \/ \E b \in BytesUpTo(MaxLen), m \in Modes :
            sval = 0 /\ stream_open_memory(b, m)
    \/ \E w \in 0..2 : window_close(w)
    \/ \E w \in 0..2 : request_line_event(w)
    \/ \E w \in 0..2 : request_line_event_uni(w)
    \/ \E i \in StreamIds : stream_close(i)
    \/ \E i \in StreamIds : CanGet(i, "get_char") /\ get_char_stream(i)
    \/ \E i \in StreamIds : CanGet(i, "get_line") /\ get_line_stream(i, Nil)
    \/ \E i \in StreamIds : CanPut(i, "put_char") /\ put_char_stream(i, 65)
    \/ \E i \in StreamIds, m \in SeekModes, oc \in BOOLEAN :
            stream_set_position(i, 1, m, oc)
    \/ \E i \in StreamIds : stream_get_position(i)

IdSpec == Init /\ [][IdNext]_vars

\* the event manager with its timer thread, a window that sends genuine
\* events, a client that polls, selects and sets the timer, and the clock
EventNext ==
    \/ select_poll
    \/ select
    \/ select_recv
    \/ \E ms \in 0..MaxInterval : Len(next) < MaxUpdates /\ request_timer_events(ms)
    \/ set_timer_join
    \/ timer_thread_start
    \/ timer_thread_update
    \/ timer_thread_timeout
    \/ timer_thread_fire
    \/ Tick
    \/ Len(sent) < MaxEvents /\ window_sends(CharInput(Len(sent) + 1))

EventSpec == Init /\ [][EventNext]_vars

\* the same with a window that may send any value of GlkEvent it likes
AnyEventNext ==
    \/ select_poll
    \/ Len(next) < MaxUpdates /\ select
    \/ select_recv
    \/ \E ms \in 0..MaxInterval : Len(next) < MaxUpdates /\ request_timer_events(ms)
    \/ set_timer_join
    \/ timer_thread_start
    \/ timer_thread_update
    \/ timer_thread_timeout
    \/ timer_thread_fire
    \/ Tick
    \/ Len(sent) < MaxEvents - 1 /\ window_sends(CharInput(Len(sent) + 1))
    \/ Len(rx) + Len(pending) < MaxEvents - 1 /\ window_sends(NoneEvent)

AnyEventSpec == Init /\ [][AnyEventNext]_vars

\* the clock of a run that never ends: it advances up to MaxTime, and from
\* there on every time the model keeps is counted from one unit later, so
\* that the distances between the clock and the deadlines are what they
\* would be under an unbounded clock
TickOn ==
    /\ ~panicked
    /\ ~Prompt
    /\ IF now < MaxTime
       THEN /\ now' = now + 1
            /\ UNCHANGED <<tt, due, updated>>
       ELSE /\ tt' = [tt EXCEPT !.deadline = IF @ > 0 THEN @ - 1 ELSE 0]
            /\ due' = IF due.at > 0 THEN [due EXCEPT !.at = @ - 1] ELSE due
            /\ updated' = IF updated > 0 THEN updated - 1 ELSE updated
            /\ UNCHANGED now
    /\ last' = Call("tick", Nil, "None", Nil)
    /\ NoManagerChange
    /\ UNCHANGED <<pending, timer_fired, timer_interval, timer_thread, timer_update_channel,
                   rx, next, caller, sent, delivered>>

\* a client that sets timers and calls select for a while and polls from
\* then on, with no window sending events; it sets a non-zero interval only
\* when the thread has taken the intervals sent before, so that it cannot
\* keep the clock from advancing
LiveEventNext ==
    \/ select_poll
    \/ now < MaxTime /\ Len(next) < MaxUpdates /\ select
    \/ select_recv
    \/ \E ms \in 0..MaxInterval :
            /\ now < MaxTime
            /\ Len(next) < MaxUpdates
            /\ next = << >> \/ (ms = 0 /\ timer_thread)
            /\ request_timer_events(ms)
    \/ set_timer_join
    \/ timer_thread_start
    \/ timer_thread_update
    \/ timer_thread_timeout
    \/ timer_thread_fire
    \/ TickOn

\* the client keeps polling, the timer thread is scheduled whenever it can
\* run, blocked calls return when they can, and time passes
LiveEventSpec ==
    /\ Init
    /\ [][LiveEventNext]_vars
    /\ WF_vars(select_poll)
    /\ WF_vars(select_recv)
    /\ WF_vars(set_timer_join)
    /\ WF_vars(timer_thread_start)
    /\ WF_vars(timer_thread_update)
    /\ WF_vars(timer_thread_timeout)
    /\ WF_vars(timer_thread_fire)
    /\ SF_vars(TickOn)

----------------------------------------------------------------------------
\* C1: after any sequence of window_open / split / window_close, every Pair
\* window that is still registered has exactly two children, and at most one
\* top-level window (child of the implicit root) exists.
C1_TreeInvariant ==
    ~panicked =>
        /\ \A w \in window_iterate :
              IsPair(w) => /\ Obj(w).child1 # Nil
                           /\ Obj(w).child2 # Nil
                           /\ Obj(w).child1 # Obj(w).child2
        /\ (0 \in DOMAIN windows) => Cardinality(Kids(heap, windows[0])) <= 1

\* C2: in every state reachable by open / split / close, the parent pointer
\* of every registered non-root window w names a registered window p with
\* p.child1 = w or p.child2 = w.
C2_NoDanglingParent ==
    ~panicked =>
        \A w \in window_iterate :
            LET p == Obj(w).parent
            IN /\ p \in DOMAIN heap
               /\ p \in Range(windows)
               /\ heap[p].child1 = windows[w] \/ heap[p].child2 = windows[w]

\* C3: splitting a live non-root window W and then immediately closing the
\* newly created window leaves window_get_parent(W) and window_get_sibling(W)
\* equal to their values before the split.
C3_SplitCloseInverse ==
    [][ ( /\ last.op = "split"
          /\ last.ret # Nil
          /\ last'.op = "close"
          /\ last'.win = last.ret
          /\ ~panicked' )
        => /\ window_get_parent_in(WM', last.win) = last.pre_parent
           /\ window_get_sibling_in(WM', last.win) = last.pre_sibling ]_vars

\* C4: after window_close(w) succeeds, neither w, nor the Pair that was w's
\* parent, nor any descendant of w is still registered.
C4_ClosedSubtreeUnregistered ==
    [][ ( /\ last'.op = "close"
          /\ last'.ret # Nil
          /\ ~panicked' )
        => LET a == windows[last'.win]
               p == get_parent(heap, a)
               gone == {heap[x].this_id : x \in Desc(heap, a)}
                       \cup (IF p # Nil /\ heap[p].wintype = "Pair"
                             THEN {heap[p].this_id} ELSE {})
           IN gone \cap DOMAIN windows' = {} ]_vars

\* C5: window_open with no parent fails whenever a top-level window already
\* exists (it returns no window ID and creates no second top-level window),
\* and it succeeds when no top-level window exists.
C5_OpenOnlyWithoutTopLevel ==
    [][ ( /\ last'.op = "open"
          /\ last'.wintype # "Pair" )
        => IF window_get_root # Nil
           THEN /\ last'.ret = Nil
                /\ get_root(WM') = window_get_root
           ELSE /\ ~panicked'
                /\ last'.ret # Nil
                /\ get_root(WM') = last'.ret ]_vars

\* C6: whenever exactly one non-root window remains, window_close on it
\* succeeds, window_get_root then returns None, and a following window_open
\* with no parent succeeds.
C6_CloseLastWindow ==
    [][ /\ ( /\ last'.op = "close"
             /\ window_iterate = {last'.win} )
           => /\ ~panicked'
              /\ last'.ret # Nil
              /\ get_root(WM') = Nil
        /\ ( /\ last.op = "close"
             /\ last.ret # Nil
             /\ window_iterate = {}
             /\ last'.op = "open"
             /\ last'.wintype # "Pair" )
           => /\ ~panicked'
              /\ last'.ret # Nil ]_vars

\* C7: in every reachable state, splitting a live non-root window `target`
\* succeeds and yields a new Pair whose child1 is target and child2 is the
\* new leaf; target's former parent holds the Pair in exactly the child slot
\* target occupied; the parent pointers of target and of the new leaf name
\* the Pair, and the Pair's parent is target's former parent.
C7_SplitStructure ==
    [][ ( /\ last'.op = "split"
          /\ last'.wintype # "Pair"
          /\ last'.win \in window_iterate )
        => /\ ~panicked'
           /\ last'.ret # Nil
           /\ LET t == windows[last'.win]
                  old == heap[t].parent
                  n == windows'[last'.ret]
                  pr == heap'[t].parent
              IN /\ old \in DOMAIN heap
                 /\ pr \in DOMAIN heap'
                 /\ pr \notin DOMAIN heap
                 /\ heap'[pr].wintype = "Pair"
                 /\ heap'[pr].child1 = t
                 /\ heap'[pr].child2 = n
                 /\ heap'[n].parent = pr
                 /\ heap'[pr].parent = old
                 /\ heap[old].child1 = t \/ heap[old].child2 = t
                 /\ heap'[old].child1 = (IF heap[old].child1 = t
                                         THEN pr ELSE heap[old].child1)
                 /\ heap'[old].child2 = (IF heap[old].child1 # t /\ heap[old].child2 = t
                                         THEN pr ELSE heap[old].child2) ]_vars

\* C8: the top-level window has neither parent nor sibling; for every window
\* w whose parent is a Pair, window_get_sibling(w) is the Pair's other child,
\* the sibling's sibling is w, and both have the same parent of type Pair.
C8_SiblingParentConsistent ==
    ~panicked =>
        /\ window_get_root # Nil =>
              /\ window_get_parent(window_get_root) = Nil
              /\ window_get_sibling(window_get_root) = Nil
        /\ \A w \in window_iterate :
              LET p == window_get_parent(w)
                  s == window_get_sibling(w)
              IN p # Nil =>
                    /\ p \in DOMAIN windows
                    /\ IsPair(p)
                    /\ s # Nil
                    /\ s # w
                    /\ ChildIds(p) = {w, s}
                    /\ window_get_sibling(s) = w
                    /\ window_get_parent(s) = p

\* C9: window_get_arrangement returns (None, None) for every non-Pair
\* window; for every registered Pair it returns the split method most
\* recently given (when one was given) together with a key window that is
\* one of the Pair's two current children, the key defaulting to the second
\* child.
C9_Arrangement ==
    ~panicked =>
        \A w \in window_iterate :
            LET arr == window_get_arrangement(w)
            IN IF ~IsPair(w)
               THEN arr = [method |-> NoMethod, keywin |-> Nil]
               ELSE Obj(w).method # NoMethod =>
                    /\ arr.method = Obj(w).method
                    /\ arr.keywin # Nil
                    /\ arr.keywin \in ChildIds(w)
                    /\ Obj(w).keywin = "Child2" =>
                          /\ Obj(w).child2 # Nil
                          /\ arr.keywin = heap[Obj(w).child2].this_id

\* the registered windows that are neither Pair nor Root
LeafWindows == {w \in window_iterate : ~IsPair(w)}

\* C10: each live leaf window owns exactly one live stream: its stream is
\* present in the stream manager, no two live windows (leaf or Pair) report
\* the same stream ID, and closing a window never closes the stream of a
\* window that remains open.
C10_WindowStreams ==
    /\ [](~panicked =>
            /\ \A w \in LeafWindows : window_get_stream(w) \in DOMAIN streams
            /\ \A w1, w2 \in window_iterate :
                  w1 # w2 => window_get_stream(w1) # window_get_stream(w2))
    /\ [][ (last'.op = "close" /\ ~panicked')
           => \A w \in LeafWindows :
                 (w \in DOMAIN windows' /\ Obj(w).stream \in DOMAIN streams)
                    => Obj(w).stream \in DOMAIN streams' ]_vars

----------------------------------------------------------------------------
\* Observations on streams

\* the last call was a write that returned
WroteTo(id) == last'.op \in PutOps /\ last'.stream = id /\ ~panicked'

\* C11: window_close on a live leaf window returns the statistics of that
\* window's own stream: read_count = 0 and write_count = the number of units
\* written to that stream since the window was opened (each write to the
\* stream adds the units it wrote, and the close returns the sum); writes to
\* other windows' streams do not contribute.
C11_CloseReturnsOwnStats ==
    [][ /\ ( /\ last'.op = "close"
             /\ last'.win \in LeafWindows )
           => /\ ~panicked'
              /\ last'.ret # Nil
              /\ Obj(last'.win).stream \in DOMAIN streams
              /\ streams[Obj(last'.win).stream].sh = windows[last'.win]
              /\ last'.read_count = 0
              /\ last'.write_count = streams[Obj(last'.win).stream].write_count
        /\ \A id \in DOMAIN streams :
              (streams[id].kind = "window" /\ WroteTo(id))
                 => /\ streams'[id].write_count = streams[id].write_count + Len(last'.arg)
                    /\ \A j \in (DOMAIN streams) \ EchoChain(id, {}) :
                          streams'[j].write_count = streams[j].write_count ]_vars

\* C12: stream_close on a window-backed stream returns None and changes
\* nothing: the stream stays live and writable, its counters are unchanged
\* and no window's echo reference is altered; a window stream leaves the
\* stream manager only in a window_close.
C12_WindowStreamNotClosable ==
    [][ /\ ( /\ last'.op = "stream_close"
             /\ last'.stream \in DOMAIN streams
             /\ streams[last'.stream].kind = "window" )
           => /\ ~panicked'
              /\ last'.ret = Nil
              /\ streams' = streams
              /\ check_write(streams'[last'.stream])
              /\ heap' = heap
              /\ windows' = windows
        /\ \A id \in DOMAIN streams :
              (streams[id].kind = "window" /\ id \notin DOMAIN streams')
                 => last'.op = "close" ]_vars

\* a stream_close was just refused on a window stream that has been written
\* to, while some window echoes to that stream
C12_Witness ==
    /\ last.op = "stream_close"
    /\ last.ret = Nil
    /\ last.stream \in DOMAIN streams
    /\ streams[last.stream].kind = "window"
    /\ streams[last.stream].write_count > 0
    /\ \E w \in window_iterate : Obj(w).echo_stream = last.stream

\* C13: no dangling echo reference: in every state reached through
\* window_open, window_close, window_set_echo_stream, stream_open_memory and
\* stream_close, the echo stream of each registered window is None or the ID
\* of a stream that is live in the stream manager.
C13_NoDanglingEcho ==
    ~panicked =>
        \A w \in window_iterate :
            Obj(w).echo_stream = Nil \/ Obj(w).echo_stream \in DOMAIN streams

\* the echo stream of the window behind a window stream, when it is live
\* and another stream
LiveEcho(id) ==
    LET echo == get_echo_stream(heap, streams[id])
    IN IF echo \in DOMAIN streams /\ echo # id THEN echo ELSE Nil

\* C14: echo fan-out: writing N bytes to a window stream whose window has a
\* live echo target increases the write_count of the source and of the echo
\* target by N each; when the window has no live echo target (none set, or
\* the target was closed) a write increases only the source's write_count.
C14_EchoFanOut ==
    [][ \A id \in DOMAIN streams :
          ( /\ streams[id].kind = "window"
            /\ last'.op \in {"put_char", "put_buffer"}
            /\ last'.stream = id )
          => LET n == Len(last'.arg)
                 echo == LiveEcho(id)
             IN /\ ~panicked'
                /\ streams'[id].write_count = streams[id].write_count + n
                /\ echo # Nil =>
                      streams'[echo].write_count = streams[echo].write_count + n
                /\ echo = Nil =>
                      \A j \in (DOMAIN streams) \ {id} : streams'[j] = streams[j] ]_vars

C16_OutputOnlyReadsNone ==
    [][ \A id \in DOMAIN streams :
          ( /\ last'.stream = id
            /\ last'.op \in {"get_char", "get_char_uni"}
            /\ streams[id].mode \in {"Write", "WriteAppend"} )
          => /\ ~panicked'
             /\ ~last'.some
             /\ streams' = streams ]_vars

\* C17: count accounting: on a memory stream opened for reading over a
\* buffer of length L with the cursor at 0, and read only with get_char, the
\* calls return the buffer's bytes in order (the k-th call returns byte k and
\* read_count is the number of bytes returned), every get_char after the
\* L-th returns None and leaves read_count alone, and closing the stream
\* reports the bytes read, L once all were read.
C17_GetCharAccounting ==
    /\ [](\A id \in DOMAIN streams :
             /\ streams[id].read_count = streams[id].cursor
             /\ streams[id].cursor <= Len(streams[id].buf))
    /\ [][ \A id \in DOMAIN streams :
             /\ (last'.op = "get_char" /\ last'.stream = id)
                  => /\ ~panicked'
                     /\ IF streams[id].cursor < Len(streams[id].buf)
                        THEN /\ last'.some
                             /\ last'.ch = streams[id].buf[streams[id].cursor + 1]
                             /\ streams'[id].read_count = streams[id].read_count + 1
                             /\ streams'[id].buf = streams[id].buf
                        ELSE /\ ~last'.some
                             /\ streams' = streams
             /\ (last'.op = "stream_close" /\ last'.stream = id)
                  => /\ last'.ret # Nil
                     /\ last'.read_count = streams[id].cursor
                     /\ streams[id].cursor = Len(streams[id].buf)
                           => last'.read_count = Len(streams[id].buf) ]_vars

\* a get_char just returned None on a stream of two bytes or more whose
\* bytes had all been read
C17_Witness ==
    /\ last.op = "get_char"
    /\ ~last.some
    /\ last.stream \in DOMAIN streams
    /\ Len(streams[last.stream].buf) >= 2
    /\ streams[last.stream].read_count = Len(streams[last.stream].buf)

\* C18: counters count logical units and never decrease: a successful read
\* changes the stream's read_count, and a successful write its write_count,
\* by 1 per byte transferred, and by exactly 4 per code point transferred
\* for the Unicode calls, whatever the code point's UTF-8 length; the other
\* counter stays.
C18_LogicalUnits ==
    [][ LET Units(call) ==
          CASE call.op \in {"get_char", "get_char_uni"} ->
                  IF ~call.some THEN 0 ELSE IF call.op = "get_char" THEN 1 ELSE 4
            [] call.op \in {"get_buffer", "get_line"} -> Len(call.out)
            [] call.op \in {"get_buffer_uni", "get_line_uni"} -> 4 * Len(call.out)
            [] call.op = "put_char" -> 1
            [] call.op = "put_buffer" -> Len(call.arg)
            [] call.op = "put_char_uni" -> 4
            [] call.op = "put_buffer_uni" -> 4 * Len(call.arg)
        IN \A id \in DOMAIN streams \cap DOMAIN streams' :
          /\ streams'[id].read_count >= streams[id].read_count
          /\ streams'[id].write_count >= streams[id].write_count
          /\ (last'.stream = id /\ ~panicked' /\ last'.op \in GetOps)
               => /\ streams'[id].read_count = streams[id].read_count + Units(last')
                  /\ streams'[id].write_count = streams[id].write_count
          /\ (last'.stream = id /\ ~panicked' /\ last'.op \in PutOps)
               => /\ streams'[id].write_count = streams[id].write_count + Units(last')
                  /\ streams'[id].read_count = streams[id].read_count ]_vars

\* C19: stream_close on a live memory stream returns its read_count and
\* write_count with Some(final buffer contents), on a live file stream the
\* counts with None; afterwards the ID is not live and never becomes live
\* again, so a second stream_close on it returns None and every put_* /
\* get_* on it changes nothing and returns None or empty.
C19_CloseResult ==
    [][ /\ \A id \in DOMAIN streams :
             (last'.op = "stream_close" /\ last'.stream = id
                 /\ streams[id].kind \in {"memory", "file"})
             => /\ ~panicked'
                /\ last'.ret # Nil
                /\ last'.read_count = streams[id].read_count
                /\ last'.write_count = streams[id].write_count
                /\ last'.some = (streams[id].kind = "memory")
                /\ streams[id].kind = "memory" => last'.out = streams[id].buf
                /\ id \notin DOMAIN streams'
        /\ \A id \in StreamIds :
             (id < sval /\ id \notin DOMAIN streams)
             => /\ id \notin DOMAIN streams'
                /\ (last'.stream = id /\ last'.op = "stream_close") => last'.ret = Nil
                /\ (last'.stream = id /\ last'.op \in PutOps \cup GetOps)
                     => /\ ~panicked'
                        /\ streams' = streams
                        /\ ~last'.some
                        /\ last'.out = << >> ]_vars

\* a memory stream that was written to has just been closed
C19_Witness ==
    /\ last.op = "stream_close"
    /\ last.some
    /\ last.write_count > 0
    /\ last.out # << >>
    /\ last.stream \notin DOMAIN streams

\* C20: get_line on a readable memory or file stream returns the remaining
\* data up to and including the first newline, or exactly maxlen bytes when
\* maxlen is given and no newline occurs earlier, or all remaining data when
\* neither limit is reached; the position advances by the number of bytes
\* returned.
C20_GetLine ==
    [][ \A id \in DOMAIN streams :
          ( /\ last'.op = "get_line"
            /\ last'.stream = id
            /\ streams[id].kind \in {"memory", "file"}
            /\ check_read(streams[id]) )
          => LET st == streams[id]
                 remaining == Len(st.buf) - st.cursor
                 limit == IF last'.maxlen # Nil /\ last'.maxlen < remaining
                          THEN last'.maxlen ELSE remaining
                 nl == FirstNewline(st.buf, st.cursor)
                 stop == IF nl # 0 /\ nl <= st.cursor + limit THEN nl ELSE st.cursor + limit
             IN /\ ~panicked'
                /\ last'.out = SubSeq(st.buf, st.cursor + 1, stop)
                /\ streams'[id].cursor = st.cursor + Len(last'.out)
                /\ streams'[id].buf = st.buf ]_vars

\* C30: set_position on a memory stream of length L takes pos (Start),
\* cursor + pos (Current) or L + pos (End) as the target; a target in [0, L]
\* gives Some and becomes the cursor, any other target gives None and
\* leaves the cursor, the buffer and the counters as they were.
C30_MemSetPosition ==
    [][ \A id \in DOMAIN streams :
          ( /\ last'.op = "set_position"
            /\ last'.stream = id
            /\ streams[id].kind = "memory" )
          => LET st == streams[id]
                 pos == last'.arg[1]
                 base == CASE last'.seekmode = "Start" -> 0
                           [] last'.seekmode = "Current" -> st.cursor
                           [] last'.seekmode = "End" -> Len(st.buf)
                 in_range == pos >= 0 - base /\ pos <= Len(st.buf) - base
             IN /\ ~panicked'
                /\ last'.some = in_range
                /\ streams'[id] = IF in_range THEN [st EXCEPT !.cursor = base + pos]
                                  ELSE st ]_vars

C29_CloseUnderGrandparent ==
    [][ ( /\ last'.op = "close"
          /\ last'.ret # Nil
          /\ ~panicked'
          /\ last'.win \in DOMAIN windows
          /\ get_parent(heap, windows[last'.win]) # Nil
          /\ get_parent(heap, get_parent(heap, windows[last'.win])) # Nil )
        => LET w == windows[last'.win]
               P == get_parent(heap, w)
               G == get_parent(heap, P)
               sibling == get_sibling(heap, w)
               shape(h, x) == <<h[x].child1, h[x].child2, h[x].method, h[x].keywin>>
           IN P \in Kids(heap, G)
              => /\ G \in DOMAIN heap'
                 /\ heap[G].child1 = P
                       => heap'[G].child1 = sibling /\ heap'[G].child2 = heap[G].child2
                 /\ heap[G].child1 # P
                       => heap'[G].child2 = sibling /\ heap'[G].child1 = heap[G].child1
                 /\ sibling # Nil
                       => \A x \in Desc(heap, sibling) :
                             x \in DOMAIN heap' /\ shape(heap', x) = shape(heap, x) ]_vars

\* C28: a facade call given a window or stream ID that is not live does not
\* crash: it returns None or an empty result and leaves the window and
\* stream managers as they were.
C28_UnknownIdsNeverCrash ==
    [][ ( \/ /\ last'.op \in {"close", "request_line_event", "request_line_event_uni"}
             /\ last'.win \notin DOMAIN windows
          \/ /\ last'.op \in PutOps \cup GetOps
                        \cup {"stream_close", "set_position", "get_position"}
             /\ last'.stream \notin DOMAIN streams )
        => /\ ~panicked'
           /\ last'.ret = Nil /\ ~last'.some /\ last'.out = << >>
           /\ UNCHANGED <<root, windows, val, heap, nextAddr, streams, sval>> ]_vars

\* C23: select never returns GlkEvent::None, whatever the pending queue
\* holds and whatever event value comes in on the channel while it blocks.
C23_SelectNeverNone ==
    [][ last'.op = "select" => last'.event.kind # "None" ]_vars

\* C22: event FIFO. The genuine events sent on the inbound channel are
\* returned by select and select_poll once each and in the order sent: what
\* was returned, then what is pending, then what is in the channel is at all
\* times what was sent. select_poll returns at once, and returns None when
\* no genuine event and no timer tick is pending.
C22_EventFifo ==
    /\ [](delivered \o GenuineIds(pending) \o GenuineIds(rx) = sent)
    /\ [][ last'.op = "select_poll" /\ caller = "idle"
            => /\ caller' = "idle"
               /\ (pending = << >> /\ rx = << >> /\ ~timer_fired)
                     => last'.event = NoneEvent ]_vars

\* two genuine events were returned in the order sent while a timer runs,
\* the second one by a select that had blocked
C22_Witness ==
    /\ delivered = << 1, 2 >>
    /\ last.op = "select"
    /\ last.event = CharInput(2)
    /\ timer_interval > 0
    /\ timer_fired

\* C24: a Timer never overtakes real input. A select_poll or select that
\* returns Timer found no genuine event in the pending queue or in the
\* channel when it drained the channel; a select blocks only when it found
\* none, and then returns what arrives first; a call that drains a tick
\* together with genuine events returns the oldest genuine event.
C24_TimerAfterInput ==
    [][ LET genuine == GenuineIds(pending) \o GenuineIds(rx)
        IN /\ ( /\ caller = "idle"
                /\ last'.op \in {"select_poll", "select"}
                /\ last'.event = TimerEvent ) => genuine = << >>
           /\ (caller = "idle" /\ caller' = "select") => genuine = << >>
           /\ (caller = "select" /\ last'.op = "select")
                 => GenuineIds(pending) = << >> /\ last'.event = Head(rx)
           /\ ( /\ caller = "idle"
                /\ last'.op \in {"select_poll", "select"}
                /\ genuine # << >> ) => last'.event = CharInput(Head(genuine)) ]_vars

\* a tick and a genuine event were drained by one select_poll, which
\* returned the genuine event and kept the tick for the next call
C24_Witness ==
    /\ last.op = "select_poll"
    /\ last.event = CharInput(1)
    /\ timer_fired
    /\ pending = << >>

\* C26: timer cancellation. Once request_timer_events(0) has returned, no
\* select_poll or select returns Timer until a non-zero interval is asked
\* for again, even if a tick of the cancelled timer was not yet consumed.
C26_TimerCancellation ==
    [][ ( /\ last'.op \in {"select_poll", "select"}
          /\ last'.event = TimerEvent )
        => timer_interval # 0 ]_vars

\* C27: a new non-zero interval replaces the outstanding wait atomically.
\* A tick the timer thread emits after request_timer_events has returned is
\* computed from the interval last set, and comes no earlier than a full
\* interval after the update.
C27_IntervalReplacedAtomically ==
    [][ (tt.pc = "fire" /\ tt'.pc = "recv" /\ timer_interval > 0)
        => /\ \A i \in DOMAIN next : next[i].from # "set_timer"
           /\ tt.current_interval = timer_interval
           /\ now >= updated + timer_interval ]_vars

\* C25: timer ticks do not accumulate. With a timer active and no genuine
\* event about, a select_poll made after more than an interval has passed
\* returns Timer, and a select_poll made after a call returned Timer and
\* before another interval has passed returns None.
C25_TicksDoNotAccumulate ==
    [][ ( /\ last'.op = "select_poll"
          /\ caller = "idle"
          /\ due.at # Nil
          /\ GenuineIds(pending) \o GenuineIds(rx) = << >> )
        => /\ now > due.at => last'.event = TimerEvent
           /\ (due.by = "Timer" /\ now < due.at) => last'.event = NoneEvent ]_vars

\* C31: on a file stream every get_line call, whatever its maxlen, returns
\* exactly the bytes between the position before the call and the position
\* after it (nothing lost, nothing repeated, the tail read past a newline
\* pushed back), and a call made while data remains, with a maxlen of at
\* least one or none, returns a non-empty result even when fewer than maxlen
\* bytes remain.
C31_FileGetLineLosesNothing ==
    [][ \A id \in DOMAIN streams :
          ( /\ last'.op = "get_line"
            /\ last'.stream = id
            /\ streams[id].kind = "file"
            /\ check_read(streams[id]) )
          => LET st == streams[id]
             IN /\ ~panicked'
                /\ streams'[id].buf = st.buf
                /\ streams'[id].cursor >= st.cursor
                /\ last'.out = SubSeq(st.buf, st.cursor + 1, streams'[id].cursor)
                /\ (st.cursor < Len(st.buf) /\ last'.maxlen # 0) => last'.out # << >> ]_vars

\* C32: bytestream_to_char returns None, never a code point, whenever the
\* leading byte matches none of 0xxxxxxx, 110xxxxx, 1110xxxx, 11110xxx (a
\* lone continuation byte, a byte in 0xF8..0xFF), or a continuation byte the
\* form requires is missing or is not of the form 10xxxxxx.
C32_DecodeFailures ==
    [][ \A id \in DOMAIN streams :
          ( /\ last'.op = "get_char_uni"
            /\ last'.stream = id
            /\ streams[id].kind = "file"
            /\ streams[id].cursor < Len(streams[id].buf) )
          => LET b == streams[id].buf
                 pos == streams[id].cursor
                 lead == b[pos + 1]
                 need == IF lead < 128 THEN 0
                         ELSE IF lead \div 32 = 6 THEN 1
                         ELSE IF lead \div 16 = 14 THEN 2
                         ELSE IF lead \div 8 = 30 THEN 3
                         ELSE Nil
                 malformed ==
                     \/ need = Nil
                     \/ \E k \in 1..need :
                            pos + 1 + k > Len(b) \/ b[pos + 1 + k] \div 64 # 2
             IN malformed => ~panicked' /\ ~last'.some ]_vars

\* C33: whatever set_timer calls came before, when set_timer(ms) with
\* ms > 0 has returned a timer thread is running and ms is the interval it
\* is armed with, or the last interval on its way to it; so also when the
\* call before was set_timer(0) made while no timer had been started.
C33_SetTimerArms ==
    ( /\ last.op = "request_timer_events"
      /\ last.arg # << >>
      /\ last.arg[1] > 0 )
    => /\ ~panicked
       /\ timer_thread
       /\ tt.pc \notin {"none", "done"}
       /\ IF next # << >> THEN next[Len(next)].ms = last.arg[1]
          ELSE tt.current_interval = last.arg[1]

\* C34: timer liveness. While a non-zero interval is set and no genuine
\* events arrive, a client that keeps polling is returned Timer again and
\* again, also after a Timer came back from a blocking select: from every
\* state with a non-zero interval, an event call returns Timer later on (or
\* the interval is set to zero).
C34_TimerLiveness ==
    (timer_interval > 0)
        ~> ( \/ timer_interval = 0
             \/ last.op \in {"select", "select_poll"} /\ last.event = TimerEvent )

\* C35: set_timer(0) called while a timer thread exists always returns:
\* whether the thread is waiting out an interval or has emitted a tick and
\* waits for a new interval, and whatever intervals are still queued for it,
\* it ends after the 0 is sent, the join returns, and then there is no
\* timer thread and no update channel.
C35_SetTimerZeroTerminates ==
    (caller = "join")
        ~> ( /\ caller = "idle"
             /\ ~timer_thread
             /\ ~timer_update_channel
             /\ tt = NoThread
             /\ ~panicked )

\* set_timer(0) waits in join for a thread that has emitted a tick and has
\* a re-arm interval queued before the 0
C35_Witness ==
    /\ caller = "join"
    /\ tt.pc = "recv"
    /\ Len(next) = 2
    /\ next[1].ms > 0
    /\ next[2] = Update(0, "set_timer")

\* C36: echo propagation terminates: in no state reached through
\* window_set_echo_stream does the chain of echo streams that starts at a
\* stream come back to a stream it has passed (a window whose echo stream is
\* its own stream, two windows that echo to each other), so every put_*
\* call writes to finitely many streams.
C36_EchoPropagationTerminates ==
    \A id \in DOMAIN streams :
        LET RECURSIVE ComesBack(_, _)
            ComesBack(j, seen) ==
                IF j \notin DOMAIN streams THEN FALSE
                ELSE IF j \in seen THEN TRUE
                ELSE LET echo == get_echo_stream(heap, streams[j])
                     IN IF echo = Nil THEN FALSE
                        ELSE ComesBack(echo, seen \cup {j})
        IN ~ComesBack(id, {})

\* C37: the get_* handlers and get_data of the window backend, which panic
\* with "Library Bug", are never reached through the facade: every window
\* stream has mode Write, so a get_* call on it is refused by check_read
\* before the backend is called, and stream_close on a window stream returns
\* None with nothing read from the stream and nothing changed.
C37_WindowReadHandlersUnreachable ==
    /\ [](~last.bug)
    /\ [](\A id \in DOMAIN streams : streams[id].kind = "window" => streams[id].mode = "Write")
    /\ [][ \A id \in DOMAIN streams :
             (streams[id].kind = "window" /\ last'.stream = id)
             => /\ last'.op \in GetOps
                   => panicked' /\ ~check_read(streams[id]) /\ streams' = streams
                /\ last'.op = "stream_close"
                   => /\ ~panicked'
                      /\ last'.ret = Nil
                      /\ last'.out = << >>
                      /\ streams' = streams ]_vars

\* a get_* call on the stream of an open window was just refused by the
\* mode gate, after the window had been written to
C37_Witness ==
    /\ last.op \in GetOps
    /\ panicked
    /\ ~last.bug
    /\ last.stream \in DOMAIN streams
    /\ streams[last.stream].kind = "window"
    /\ streams[last.stream].write_count > 0

\* C38: for a memory stream, after any sequence of put_*, get_* and
\* set_position calls the cursor lies between 0 and the length of the
\* buffer, the buffer has the length it was opened with (writes past the end
\* are dropped), and a get_char_uni that returns None because fewer than 4
\* bytes remain leaves the cursor where it was.
C38_MemCursor ==
    /\ [](\A id \in DOMAIN streams :
            streams[id].kind = "memory"
            => streams[id].cursor >= 0 /\ streams[id].cursor <= Len(streams[id].buf))
    /\ [][ /\ \A id \in (DOMAIN streams') \ (DOMAIN streams) :
                (streams'[id].kind = "memory" /\ last'.op = "open_memory")
                => streams'[id].buf = last'.arg
           /\ \A id \in (DOMAIN streams) \cap (DOMAIN streams') :
                streams[id].kind = "memory"
                => /\ Len(streams'[id].buf) = Len(streams[id].buf)
                   /\ ( /\ last'.op = "get_char_uni"
                        /\ last'.stream = id
                        /\ ~panicked'
                        /\ Len(streams[id].buf) - streams[id].cursor < 4 )
                      => /\ ~last'.some
                         /\ streams'[id].cursor = streams[id].cursor ]_vars

\* C39: window IDs and stream IDs come from counters that only grow and
\* are never used again after a close: every registered window is registered
\* under its own ID, every ID in use is below its counter, and an ID below
\* the counter that is not in use (a stale ID, such as that of a closed
\* stream a client still holds) is not in use after any later call either,
\* so it never names a window or stream made later.
C39_IdsNeverReused ==
    /\ [](\A w \in DOMAIN windows : w < val /\ Obj(w).this_id = w)
    /\ [](\A i \in DOMAIN streams : i < sval)
    /\ [][ /\ val' >= val
           /\ sval' >= sval
           /\ \A w \in 0..(val - 1) : w \notin DOMAIN windows => w \notin DOMAIN windows'
           /\ \A i \in 0..(sval - 1) : i \notin DOMAIN streams => i \notin DOMAIN streams' ]_vars

\* a window was just opened after two streams and a window had been closed:
\* the new window and its stream have IDs above the stale ones
C39_Witness ==
    /\ last.op = "open"
    /\ ~panicked
    /\ last.ret \in DOMAIN windows
    /\ \E w \in 1..(last.ret - 1) : w \notin DOMAIN windows
    /\ Obj(last.ret).stream \in DOMAIN streams
    /\ Cardinality((0..(sval - 1)) \ DOMAIN streams) >= 2

\* C40: closing a window closes the stream of every leaf of the closed
\* subtree: after window_close(w) no stream made for w or for a descendant
\* of w is left in the stream manager, so the live window streams are always
\* exactly the streams of the live leaf windows.
C40_CloseClosesSubtreeStreams ==
    /\ [](~panicked =>
            {id \in DOMAIN streams : streams[id].kind = "window"}
                = {Obj(w).stream : w \in LeafWindows})
    /\ [][ ( /\ last'.op = "close"
             /\ last'.win \in DOMAIN windows
             /\ ~panicked' )
           => \A id \in DOMAIN streams :
                 ( /\ streams[id].kind = "window"
                   /\ streams[id].sh \in Desc(heap, windows[last'.win]) )
                 => id \notin DOMAIN streams' ]_vars
====
